---- MODULE Spec2Model ----
(***************************************************************************)
(* Model of src/src/wallet.ts and of measureAsync.  The envelope codec:    *)
(* encryptEvmMnemonic (lines 140-164) and decryptEvmMnemonic (171-191).    *)
(*                                                                         *)
(* Values.  A JavaScript string that holds text (a mnemonic, a password)   *)
(* is a sequence of UTF-16 code units.  A buffer that holds text is the    *)
(* sequence of its bytes.  The outputs of Node's crypto module are         *)
(* symbolic: a buffer [src, len, mods] is "the first len bytes of the byte *)
(* string named by src, with the bytes at the positions in mods changed".  *)
(* The primitives are ideal: scrypt is injective, two byte strings with    *)
(* different names are different, a GCM tag matches only the key, iv and   *)
(* ciphertext it was computed from, and every draw of randomBytes is new.  *)
(* A hex string is the buffer it spells, its length in characters and the  *)
(* marks of the characters that are not as toString("hex") prints them     *)
(* ("lc", a lower-case digit): "uc" the same digit in upper case, "alt" a  *)
(* hex digit of another value, "bad" a character that is no hex digit.     *)
(***************************************************************************)
EXTENDS Integers, Sequences, FiniteSets, TLC

VARIABLES
    mnemonic,   \* the secret the caller encrypts (encryptEvmMnemonic's 1st argument)
    password,   \* the password the caller encrypts with (its 2nd argument)
    entropy,    \* number of crypto.randomBytes draws made so far
    calls,      \* one record of locals per finished encryptEvmMnemonic call
    last,       \* the call whose result the caller is looking at
    history,    \* the decryptEvmMnemonic calls a caller has kept a record of
    running,    \* the locals of the invocations that are under way
    files,      \* the file system: the content of every file, by path
    deriving,   \* the locals of the deriveEvmWalletsFromMnemonic call under way
    seeding,    \* the generateEvmSeed call the caller is looking at
    measuring   \* the measureAsync call under way: its position, its log, its promise

vars == <<mnemonic, password, entropy, calls, last, history, running, files, deriving,
         seeding, measuring>>

\* what the codec's functions never touch
beside == <<history, running, files, deriving, seeding, measuring>>

----------------------------------------------------------------------------
(* Bounds and program constants *)

MaxCalls == 2

SaltLen == 32
IvLen == 16
KeyLen == 32
TagLen == 16
ScryptN == 16384
ScryptR == 8
ScryptP == 1
EnvelopeVersion == 1

\* Code units used to build the inputs: "a" "b" "p" "w" (1 byte in UTF-8),
\* e-acute (2 bytes), the euro sign (3 bytes), the surrogate pair of U+1F600
\* (4 bytes), and the unpaired surrogates D800 and DC00.
SecretList ==
    << <<97, 98>>, <<233, 8364>>, <<55357, 56832>>, <<>>, <<97, 55296>>, <<56320>> >>

PasswordList ==
    << <<112>>, <<112, 119>>, <<55296>>, <<56320>> >>

Secrets == { SecretList[k] : k \in DOMAIN SecretList }

\* Long secrets: LargeSecretLen times "a" (1 byte each) and LargeSecretLen
\* times the euro sign (3 bytes each)
LargeSecretLen == 256

LongSecretList ==
    << [i \in 1..LargeSecretLen |-> 97], [i \in 1..LargeSecretLen |-> 8364] >>
Passwords == { PasswordList[k] : k \in DOMAIN PasswordList }

----------------------------------------------------------------------------
(* Outcomes of a call *)

Return(v) == [kind |-> "return", value |-> v]
Throw(n, m) == [kind |-> "throw", name |-> n, message |-> m]

----------------------------------------------------------------------------
(* JavaScript values *)

Undefined == [t |-> "undefined"]
Null == [t |-> "null"]
Num(n) == [t |-> "number", n |-> n]
Str(s) == [t |-> "string", s |-> s]
HexStr(h) == [t |-> "string", hex |-> h]
Obj(f) == [t |-> "object", fields |-> f]

\* data.f : undefined when the property is absent
Get(v, f) ==
    IF v.t = "object" /\ f \in DOMAIN v.fields THEN v.fields[f] ELSE Undefined

----------------------------------------------------------------------------
(* UTF-8: Buffer.from(s, "utf8") / cipher.update(s, "utf8") and buf.toString("utf8") *)

IsHighSurrogate(u) == u >= 55296 /\ u <= 56319
IsLowSurrogate(u) == u >= 56320 /\ u <= 57343

\* A string of more than two code units is encoded in two parts, cut where no
\* surrogate pair is split; a shorter one from its first code unit on.
RECURSIVE utf8Encode(_)
utf8Encode(s) ==
    IF Len(s) > 2
    THEN LET m == Len(s) \div 2
             cut == IF IsHighSurrogate(s[m]) /\ IsLowSurrogate(s[m + 1]) THEN m + 1 ELSE m
         IN utf8Encode(SubSeq(s, 1, cut)) \o utf8Encode(SubSeq(s, cut + 1, Len(s)))
    ELSE IF s = <<>> THEN <<>>
    ELSE LET u == Head(s) IN
         IF IsHighSurrogate(u) /\ Len(s) >= 2 /\ IsLowSurrogate(s[2])
         THEN LET cp == 65536 + (u - 55296) * 1024 + (s[2] - 56320) IN
              << 240 + (cp \div 262144), 128 + ((cp \div 4096) % 64),
                 128 + ((cp \div 64) % 64), 128 + (cp % 64) >>
              \o utf8Encode(Tail(Tail(s)))
         ELSE IF IsHighSurrogate(u) \/ IsLowSurrogate(u)
         THEN <<239, 191, 189>> \o utf8Encode(Tail(s))      \* U+FFFD
         ELSE IF u < 128 THEN <<u>> \o utf8Encode(Tail(s))
         ELSE IF u < 2048
         THEN <<192 + (u \div 64), 128 + (u % 64)>> \o utf8Encode(Tail(s))
         ELSE << 224 + (u \div 4096), 128 + ((u \div 64) % 64), 128 + (u % 64) >>
              \o utf8Encode(Tail(s))

\* number of continuation bytes the lead byte b announces (0: not a lead byte)
utf8Need(b) ==
    IF b >= 194 /\ b <= 223 THEN 1
    ELSE IF b >= 224 /\ b <= 239 THEN 2
    ELSE IF b >= 240 /\ b <= 244 THEN 3
    ELSE 0

\* is c acceptable as the k-th byte after the lead byte b
utf8Cont(b, k, c) ==
    /\ c >= 128 /\ c <= 191
    /\ (k = 1 /\ b = 224) => c >= 160
    /\ (k = 1 /\ b = 237) => c <= 159
    /\ (k = 1 /\ b = 240) => c >= 144
    /\ (k = 1 /\ b = 244) => c <= 143

\* variant of utf8Decode: toString("latin1"), one code unit per byte
latin1Decode(b) == b

RECURSIVE utf8Decode(_)
utf8Decode(b) ==
    IF b = <<>> THEN <<>>
    ELSE LET b1 == Head(b)
             need == utf8Need(b1)
             avail == IF Len(b) - 1 < need THEN Len(b) - 1 ELSE need
             good == CHOOSE m \in 0..avail :
                        /\ \A k \in 1..m : utf8Cont(b1, k, b[k + 1])
                        /\ m < avail => ~utf8Cont(b1, m + 1, b[m + 2])
             rest == SubSeq(b, good + 2, Len(b))
         IN
         IF b1 < 128 THEN <<b1>> \o utf8Decode(Tail(b))
         ELSE IF need = 0 \/ good < need THEN <<65533>> \o utf8Decode(rest)
         ELSE IF need = 1
         THEN <<(b1 - 192) * 64 + (b[2] - 128)>> \o utf8Decode(rest)
         ELSE IF need = 2
         THEN <<(b1 - 224) * 4096 + (b[2] - 128) * 64 + (b[3] - 128)>>
              \o utf8Decode(rest)
         ELSE LET cp == (b1 - 240) * 262144 + (b[2] - 128) * 4096
                        + (b[3] - 128) * 64 + (b[4] - 128)
              IN << 55296 + ((cp - 65536) \div 1024), 56320 + ((cp - 65536) % 1024) >>
                 \o utf8Decode(rest)

----------------------------------------------------------------------------
(* Hex: buf.toString("hex") and Buffer.from(s, "hex") *)

\* variant of toHex: the digits printed in upper case
toHexUpperCase(buf) ==
    [ of |-> buf, length |-> 2 * buf.len,
      marks |-> { [pos |-> i, mark |-> "uc"] : i \in 1..(2 * buf.len) } ]

\* buf.toString("hex"): two lower-case digits per byte
toHex(buf) == [of |-> buf, length |-> 2 * buf.len, marks |-> {}]

\* the mark of the character at position i (1-based) of a hex string
MarkAt(h, i) ==
    IF \E m \in h.marks : m.pos = i
    THEN (CHOOSE m \in h.marks : m.pos = i).mark
    ELSE "lc"

\* Buffer.from(s, "hex") reads two characters per byte, in either case, and
\* stops at the first pair that holds a character that is no hex digit.
fromHex(h) ==
    LET pairs == h.length \div 2
        bad == { (m.pos + 1) \div 2 : m \in { x \in h.marks : x.mark = "bad" } }
        firstBad == CHOOSE j \in bad : \A k \in bad : j <= k
        n == IF bad = {} \/ firstBad > pairs THEN pairs ELSE firstBad - 1
    IN [ src |-> h.of.src,
         len |-> n,
         mods |-> { j \in 1..n : \/ j \in h.of.mods
                                 \/ MarkAt(h, 2 * j - 1) = "alt"
                                 \/ MarkAt(h, 2 * j) = "alt" } ]

\* Buffer.from(v, "hex") for a property read from the parsed envelope
BufferFromHex(v) ==
    IF v.t # "string"
    THEN Throw("TypeError", "The first argument must be of type string or an instance of Buffer")
    ELSE IF "hex" \in DOMAIN v
    THEN Return(fromHex(v.hex))
    ELSE Return([src |-> [gen |-> "text"], len |-> 0, mods |-> {}])

----------------------------------------------------------------------------
(* JSON *)

\* What JSON.stringify keeps of a value: a property whose value is undefined
\* is left out; numbers, strings and null are written as they are.
RECURSIVE JSONvalue(_)
JSONvalue(v) ==
    IF v.t = "object"
    THEN Obj([ x \in { y \in DOMAIN v.fields : v.fields[y] # Undefined } |->
                 JSONvalue(v.fields[x]) ])
    ELSE v

\* the text JSON.stringify(value) returns, named by the value it spells
JSONstringify(value) == [json |-> JSONvalue(value)]

MalformedText == [raw |-> "{"]

JSONparse(text) ==
    IF "json" \in DOMAIN text THEN Return(text.json)
    ELSE Throw("SyntaxError", "Unexpected end of JSON input")

----------------------------------------------------------------------------
(* crypto.randomBytes, crypto.scryptSync, AES-256-GCM *)

\* variant of randomBytes: a source that returns the same bytes at every draw
randomBytesRepeating(n, k) ==
    [src |-> [gen |-> "random", draw |-> 0], len |-> n, mods |-> {}]

\* the k-th draw from the random source, n bytes long
randomBytes(n, k) == [src |-> [gen |-> "random", draw |-> k], len |-> n, mods |-> {}]

RECURSIVE IsPowerOfTwo(_)
IsPowerOfTwo(n) == n = 1 \/ (n > 1 /\ n % 2 = 0 /\ IsPowerOfTwo(n \div 2))

\* the key scrypt derives: a different password, salt, length or cost
\* parameter gives a different key
scryptKey(pw, salt, keylen, N, r, p) ==
    [ gen |-> "scrypt", password |-> utf8Encode(pw), salt |-> salt,
      keylen |-> keylen, N |-> N, r |-> r, p |-> p ]

\* The memory scrypt needs, as OpenSSL counts it against maxmem:
\* p * 128 * r bytes for B and 32 * r * (N + 2) words of 4 bytes for V.
scryptMemory(N, r, p) == p * 128 * r + 128 * r * (N + 2)

\* variant of scryptSync: a derivation that failed is tried again with the
\* hardcoded cost parameters
scryptSyncFallback(pw, salt, keylen, options) ==
    LET dflt == [N |-> 16384, r |-> 8, p |-> 1]
        opt(f) == IF options[f] = Undefined THEN Num(dflt[f]) ELSE options[f]
        N == opt("N")  r == opt("r")  p == opt("p")
    IN
    IF \/ N.t # "number" \/ r.t # "number" \/ p.t # "number"
       \/ N.n < 2 \/ ~IsPowerOfTwo(N.n) \/ r.n < 1 \/ p.n < 1
       \/ scryptMemory(N.n, r.n, p.n) > 32 * 1024 * 1024
    THEN Return(scryptKey(pw, salt, keylen, dflt.N, dflt.r, dflt.p))
    ELSE Return(scryptKey(pw, salt, keylen, N.n, r.n, p.n))

\* crypto.scryptSync(password, salt, keylen, {N, r, p}); an option that is
\* undefined takes Node's default, and so does maxmem (32 MiB), which
\* neither function of the codec passes
scryptSync(pw, salt, keylen, options) ==
    LET dflt == [N |-> 16384, r |-> 8, p |-> 1]
        opt(f) == IF options[f] = Undefined THEN Num(dflt[f]) ELSE options[f]
        N == opt("N")  r == opt("r")  p == opt("p")
    IN
    IF N.t # "number" \/ r.t # "number" \/ p.t # "number"
    THEN Throw("TypeError", "The scrypt option must be of type number")
    ELSE IF \/ N.n < 2 \/ ~IsPowerOfTwo(N.n) \/ r.n < 1 \/ p.n < 1
            \/ scryptMemory(N.n, r.n, p.n) > 32 * 1024 * 1024
    THEN Throw("RangeError", "Invalid scrypt params")
    ELSE Return(scryptKey(pw, salt, keylen, N.n, r.n, p.n))

\* variant of gcmCiphertext: a block mode with padding (aes-256-cbc), whose
\* output is the next multiple of 16 bytes
gcmCiphertextPadded(key, iv, pt) ==
    [ src |-> [gen |-> "ctr", key |-> key, iv |-> iv, pt |-> pt],
      len |-> 16 * (Len(pt) \div 16 + 1), mods |-> {} ]

\* cipher.update(plaintext) ++ cipher.final(): counter mode keeps the length
gcmCiphertext(key, iv, pt) ==
    [ src |-> [gen |-> "ctr", key |-> key, iv |-> iv, pt |-> pt],
      len |-> Len(pt), mods |-> {} ]

\* cipher.getAuthTag()
gcmAuthTag(key, iv, ct) ==
    [ src |-> [gen |-> "ghash", key |-> key, iv |-> iv, ct |-> ct],
      len |-> TagLen, mods |-> {} ]

\* a byte whose value the model does not know (it is never a UTF-8 byte)
UnknownByte == 256

\* decipher.update(ct): the bytes counter mode gives back
gcmPlaintext(key, iv, ct) ==
    IF ct.src.gen = "ctr" /\ ct.src.key = key /\ ct.src.iv = iv
    THEN [i \in 1..ct.len |-> IF i \in ct.mods THEN UnknownByte ELSE ct.src.pt[i]]
    ELSE [i \in 1..ct.len |-> UnknownByte]

\* The tag lengths decipher.setAuthTag accepts when createDecipheriv was
\* given no authTagLength option
ValidGcmTagLengths == {4, 8, 12, 13, 14, 15, 16}

\* variant of gcmTagVerifies: a cipher mode without authentication
gcmTagIgnored(key, iv, ct, tag) == TRUE

\* variant of gcmTagVerifies: a decipher that remembers the ivs it was given
\* and accepts each only once (an envelope is used up by its decryption)
gcmTagVerifiesOnce(key, iv, ct, tag) ==
    /\ tag.src = gcmAuthTag(key, iv, ct).src
    /\ tag.mods = {}
    /\ tag.len <= TagLen
    /\ \A k \in 1..Len(history) :
          fromHex(Get(JSONparse(history[k].envelope).value, "iv").hex) # iv

\* decipher.final(): the tag handed to setAuthTag is compared, over its own
\* length, with the tag of what was deciphered
gcmTagVerifies(key, iv, ct, tag) ==
    /\ tag.src = gcmAuthTag(key, iv, ct).src
    /\ tag.mods = {}
    /\ tag.len <= TagLen

----------------------------------------------------------------------------
(* encryptEvmMnemonic *)

\* variant of payloadKdfparams: the envelope records a cost factor that is not
\* the one given to scrypt
payloadKdfparamsOtherN(kdfParams, salt) ==
    Obj([ N |-> Num(2 * kdfParams.N.n), r |-> kdfParams.r, p |-> kdfParams.p,
          salt |-> HexStr(toHex(salt)) ])

\* variant of payloadKdfparams: kdfparams: kdfParams, the salt not recorded
payloadKdfparamsNoSalt(kdfParams, salt) ==
    Obj([ N |-> kdfParams.N, r |-> kdfParams.r, p |-> kdfParams.p ])

\* { ...kdfParams, salt: salt.toString("hex") }
payloadKdfparams(kdfParams, salt) ==
    Obj([ N |-> kdfParams.N, r |-> kdfParams.r, p |-> kdfParams.p,
          salt |-> HexStr(toHex(salt)) ])

\* The locals of one call, `drawn` being the number of draws made before it;
\* out is the string returned.
encryptEvmMnemonic(secret, pw, drawn) ==
    LET salt == randomBytes(SaltLen, drawn + 1)
        iv == randomBytes(IvLen, drawn + 2)
        kdfParams == [N |-> Num(ScryptN), r |-> Num(ScryptR), p |-> Num(ScryptP)]
        key == scryptSync(pw, salt, KeyLen, kdfParams).value
        ciphertext == gcmCiphertext(key, iv, utf8Encode(secret))
        tag == gcmAuthTag(key, iv, ciphertext)
        payload == Obj([ v |-> Num(EnvelopeVersion),
                         alg |-> Str("aes-256-gcm"),
                         kdf |-> Str("scrypt"),
                         kdfparams |-> payloadKdfparams(kdfParams, salt),
                         iv |-> HexStr(toHex(iv)),
                         tag |-> HexStr(toHex(tag)),
                         ct |-> HexStr(toHex(ciphertext)) ])
    IN [ mnemonic |-> secret, password |-> pw,
         salt |-> salt, iv |-> iv, kdfParams |-> kdfParams, key |-> key,
         ciphertext |-> ciphertext, tag |-> tag,
         out |-> JSONstringify(payload) ]

\* Cost parameters a compatible producer may use instead of (16384, 8, 1): a
\* lower cost factor, another parallelism, and the higher cost factors a later
\* producer would choose.
ProducerParamsList ==
    << [N |-> 8192, r |-> 8, p |-> 1], [N |-> 16384, r |-> 8, p |-> 2],
       [N |-> 32768, r |-> 8, p |-> 1], [N |-> 65536, r |-> 8, p |-> 1] >>

\* A compatible producer: the steps of encryptEvmMnemonic with other cost
\* parameters, the producer giving its scrypt the memory these need.
compatibleProducer(secret, pw, drawn, params) ==
    LET salt == randomBytes(SaltLen, drawn + 1)
        iv == randomBytes(IvLen, drawn + 2)
        kdfParams == [N |-> Num(params.N), r |-> Num(params.r), p |-> Num(params.p)]
        key == scryptKey(pw, salt, KeyLen, params.N, params.r, params.p)
        ciphertext == gcmCiphertext(key, iv, utf8Encode(secret))
        tag == gcmAuthTag(key, iv, ciphertext)
        payload == Obj([ v |-> Num(EnvelopeVersion),
                         alg |-> Str("aes-256-gcm"),
                         kdf |-> Str("scrypt"),
                         kdfparams |-> payloadKdfparams(kdfParams, salt),
                         iv |-> HexStr(toHex(iv)),
                         tag |-> HexStr(toHex(tag)),
                         ct |-> HexStr(toHex(ciphertext)) ])
    IN [ mnemonic |-> secret, password |-> pw,
         salt |-> salt, iv |-> iv, kdfParams |-> kdfParams, key |-> key,
         ciphertext |-> ciphertext, tag |-> tag,
         out |-> JSONstringify(payload) ]

----------------------------------------------------------------------------
(* decryptEvmMnemonic *)

\* variant of supportedEnvelope: the two comparisons joined by && instead of ||
supportedEnvelopeEither(data) ==
    Get(data, "alg") = Str("aes-256-gcm") \/ Get(data, "kdf") = Str("scrypt")

\* variant of supportedEnvelope: the version is compared too
supportedEnvelopeVersioned(data) ==
    /\ Get(data, "alg") = Str("aes-256-gcm") /\ Get(data, "kdf") = Str("scrypt")
    /\ Get(data, "v") = Num(EnvelopeVersion)

\* the negation of: data.alg !== "aes-256-gcm" || data.kdf !== "scrypt"
supportedEnvelope(data) ==
    Get(data, "alg") = Str("aes-256-gcm") /\ Get(data, "kdf") = Str("scrypt")

decryptEvmMnemonic(encryptedMnemonic, pw) ==
    LET parsed == JSONparse(encryptedMnemonic)
        data == parsed.value
        kdfparams == Get(data, "kdfparams")
        salt == BufferFromHex(Get(kdfparams, "salt"))
        iv == BufferFromHex(Get(data, "iv"))
        tag == BufferFromHex(Get(data, "tag"))
        key == scryptSync(pw, salt.value, KeyLen,
                          [ N |-> Get(kdfparams, "N"), r |-> Get(kdfparams, "r"),
                            p |-> Get(kdfparams, "p") ])
        ct == BufferFromHex(Get(data, "ct"))
        out == gcmPlaintext(key.value, iv.value, ct.value)
    IN
    IF parsed.kind = "throw" THEN parsed
    ELSE IF data.t = "null"
    THEN Throw("TypeError", "Cannot read properties of null (reading 'alg')")
    ELSE IF ~supportedEnvelope(data)
    THEN Throw("Error", "Unsupported mnemonic envelope")
    ELSE IF kdfparams.t \in {"null", "undefined"}
    THEN Throw("TypeError", "Cannot read properties of undefined (reading 'salt')")
    ELSE IF salt.kind = "throw" THEN salt
    ELSE IF iv.kind = "throw" THEN iv
    ELSE IF tag.kind = "throw" THEN tag
    ELSE IF key.kind = "throw" THEN key
    ELSE IF iv.value.len = 0
    THEN Throw("TypeError", "Invalid initialization vector")
    ELSE IF tag.value.len \notin ValidGcmTagLengths
    THEN Throw("TypeError", "Invalid authentication tag length")
    ELSE IF ct.kind = "throw" THEN ct
    ELSE IF ~gcmTagVerifies(key.value, iv.value, ct.value, tag.value)
    THEN Throw("Error", "Unsupported state or unable to authenticate data")
    ELSE Return(utf8Decode(out))

\* The calls decryptEvmMnemonic makes, in the order of its statements
DecryptCallOrder ==
    << "JSON.parse", "Buffer.from(salt)", "Buffer.from(iv)", "Buffer.from(tag)",
       "crypto.scryptSync", "crypto.createDecipheriv", "decipher.setAuthTag",
       "Buffer.from(ct)", "decipher.update", "decipher.final", "Buffer.toString" >>

\* variant of decryptEvmMnemonicCalls: alg and kdf are looked at after the
\* salt, the iv and the tag are decoded and the key is derived
decryptEvmMnemonicCallsKeyFirst(encryptedMnemonic, pw) ==
    LET parsed == JSONparse(encryptedMnemonic)
        data == parsed.value
        kdfparams == Get(data, "kdfparams")
        salt == BufferFromHex(Get(kdfparams, "salt"))
        iv == BufferFromHex(Get(data, "iv"))
        tag == BufferFromHex(Get(data, "tag"))
        key == scryptSync(pw, salt.value, KeyLen,
                          [ N |-> Get(kdfparams, "N"), r |-> Get(kdfparams, "r"),
                            p |-> Get(kdfparams, "p") ])
        ct == BufferFromHex(Get(data, "ct"))
        made ==
            IF parsed.kind = "throw" THEN 1
            ELSE IF data.t = "null" THEN 1
            ELSE IF kdfparams.t \in {"null", "undefined"} THEN 1
            ELSE IF salt.kind = "throw" THEN 2
            ELSE IF iv.kind = "throw" THEN 3
            ELSE IF tag.kind = "throw" THEN 4
            ELSE IF key.kind = "throw" THEN 5
            ELSE IF ~supportedEnvelope(data) THEN 5
            ELSE IF iv.value.len = 0 THEN 6
            ELSE IF tag.value.len \notin ValidGcmTagLengths THEN 7
            ELSE IF ct.kind = "throw" THEN 8
            ELSE IF ~gcmTagVerifies(key.value, iv.value, ct.value, tag.value) THEN 10
            ELSE 11
    IN SubSeq(DecryptCallOrder, 1, made)

\* The calls one invocation of decryptEvmMnemonic has made when it returns or
\* throws: the body has no loop and no try, so it makes the calls of
\* DecryptCallOrder one after the other, up to the first that throws (or up to
\* the statement that throws between two calls).
decryptEvmMnemonicCalls(encryptedMnemonic, pw) ==
    LET parsed == JSONparse(encryptedMnemonic)
        data == parsed.value
        kdfparams == Get(data, "kdfparams")
        salt == BufferFromHex(Get(kdfparams, "salt"))
        iv == BufferFromHex(Get(data, "iv"))
        tag == BufferFromHex(Get(data, "tag"))
        key == scryptSync(pw, salt.value, KeyLen,
                          [ N |-> Get(kdfparams, "N"), r |-> Get(kdfparams, "r"),
                            p |-> Get(kdfparams, "p") ])
        ct == BufferFromHex(Get(data, "ct"))
        made ==
            IF parsed.kind = "throw" THEN 1
            ELSE IF data.t = "null" THEN 1
            ELSE IF ~supportedEnvelope(data) THEN 1
            ELSE IF kdfparams.t \in {"null", "undefined"} THEN 1
            ELSE IF salt.kind = "throw" THEN 2
            ELSE IF iv.kind = "throw" THEN 3
            ELSE IF tag.kind = "throw" THEN 4
            ELSE IF key.kind = "throw" THEN 5
            ELSE IF iv.value.len = 0 THEN 6
            ELSE IF tag.value.len \notin ValidGcmTagLengths THEN 7
            ELSE IF ct.kind = "throw" THEN 8
            ELSE IF ~gcmTagVerifies(key.value, iv.value, ct.value, tag.value) THEN 10
            ELSE 11
    IN SubSeq(DecryptCallOrder, 1, made)

----------------------------------------------------------------------------
(* State machine: a caller encrypts its secret and decrypts what comes back *)

Idle == [op |-> "idle"]

NoFiles == [f \in {} |-> f]

\* nothing recorded, nothing under way, no file
BesideInit ==
    /\ history = <<>>
    /\ running = <<>>
    /\ files = NoFiles
    /\ deriving = Idle
    /\ seeding = Idle
    /\ measuring = Idle

Init ==
    /\ \E k \in DOMAIN SecretList : mnemonic = SecretList[k]
    /\ \E k \in DOMAIN PasswordList : password = PasswordList[k]
    /\ entropy = 0
    /\ calls = <<>>
    /\ last = Idle
    /\ BesideInit

Encrypt ==
    /\ last = Idle
    /\ Len(calls) < MaxCalls
    /\ LET c == encryptEvmMnemonic(mnemonic, password, entropy) IN
       /\ calls' = Append(calls, c)
       /\ entropy' = entropy + 2
       /\ last' = [op |-> "encrypt", from |-> Len(calls) + 1]
    /\ UNCHANGED <<mnemonic, password>>
    /\ UNCHANGED beside

\* What may happen to an envelope string between the encryptEvmMnemonic call
\* that returned it and the decryptEvmMnemonic call that receives it.
RequiredFields ==
    { "v", "alg", "kdf", "kdfparams", "kdfparams.N", "kdfparams.r", "kdfparams.p",
      "kdfparams.salt", "iv", "tag", "ct" }

NestedFields == { "kdfparams.N", "kdfparams.r", "kdfparams.p", "kdfparams.salt" }

NestedName(f) ==
    CASE f = "kdfparams.N" -> "N"
      [] f = "kdfparams.r" -> "r"
      [] f = "kdfparams.p" -> "p"
      [] f = "kdfparams.salt" -> "salt"

ByteFields == {"ct", "tag", "iv"}

Edit(op, field, pos, to) == [op |-> op, field |-> field, pos |-> pos, to |-> to]

NoEdit == Edit("none", "", 0, "")

Edits(text) ==
    {NoEdit}
    \cup UNION { { Edit("char", f, i, m) :
                     i \in 1..text.json.fields[f].hex.length,
                     m \in {"uc", "alt", "bad"} } : f \in ByteFields }
    \cup { Edit("remove", f, 0, "") : f \in RequiredFields }
    \cup { Edit("unsupported", f, 0, r) : f \in {"alg", "kdf"}, r \in {"keep", "drop"} }
    \cup { Edit("text", "", 0, t) : t \in {"malformed", "null"} }

WithoutField(o, f) == Obj([x \in (DOMAIN o.fields) \ {f} |-> o.fields[x]])

Unrecognized(f) == IF f = "alg" THEN Str("aes-256-cbc") ELSE Str("pbkdf2")

\* the JSON text that spells a value (one with no undefined property)
TextOf(value) == [json |-> value]

ApplyEdit(text, e) ==
    LET o == text.json IN
    CASE e.op = "none" -> text
      [] e.op = "char" ->
            TextOf([o EXCEPT !.fields[e.field].hex.marks =
                               {[pos |-> e.pos, mark |-> e.to]}])
      [] e.op = "remove" /\ e.field \notin NestedFields ->
            TextOf(WithoutField(o, e.field))
      [] e.op = "remove" /\ e.field \in NestedFields ->
            TextOf([o EXCEPT !.fields.kdfparams =
                               WithoutField(o.fields.kdfparams, NestedName(e.field))])
      [] e.op = "unsupported" /\ e.to = "keep" ->
            TextOf([o EXCEPT !.fields[e.field] = Unrecognized(e.field)])
      [] e.op = "unsupported" /\ e.to = "drop" ->
            TextOf(Obj([x \in {"alg", "kdf"} |->
                                  IF x = e.field THEN Unrecognized(x) ELSE o.fields[x]]))
      [] e.op = "text" /\ e.to = "malformed" -> MalformedText
      [] e.op = "text" /\ e.to = "null" -> TextOf(Null)
      [] e.op = "cost" ->
            LET f == NestedName(e.field)
                n == o.fields.kdfparams.fields[f].n
            IN TextOf([o EXCEPT !.fields.kdfparams.fields[f] =
                                  Num(IF e.to = "double" THEN 2 * n ELSE n \div 2)])

Decrypt ==
    /\ last = Idle
    /\ \E i \in 1..Len(calls) : \E e \in Edits(calls[i].out) : \E pw \in Passwords :
          LET text == ApplyEdit(calls[i].out, e) IN
          last' = [ op |-> "decrypt", from |-> i, edit |-> e, password |-> pw,
                    result |-> decryptEvmMnemonic(text, pw) ]
    /\ UNCHANGED <<mnemonic, password, entropy, calls>>
    /\ UNCHANGED beside

\* the caller takes the result; the codec keeps nothing of the call
Done ==
    /\ last # Idle
    /\ last' = Idle
    /\ UNCHANGED <<mnemonic, password, entropy, calls>>
    /\ UNCHANGED beside

Next == Encrypt \/ Decrypt \/ Done

Spec == Init /\ [][Next]_vars

----------------------------------------------------------------------------
(* Envelopes of a compatible producer, and envelopes whose recorded cost
   parameters were changed *)

Produce ==
    /\ last = Idle
    /\ Len(calls) < MaxCalls
    /\ \E k \in DOMAIN ProducerParamsList :
          calls' = Append(calls, compatibleProducer(mnemonic, password, entropy,
                                                    ProducerParamsList[k]))
    /\ entropy' = entropy + 2
    /\ last' = [op |-> "produce", from |-> Len(calls) + 1]
    /\ UNCHANGED <<mnemonic, password>>
    /\ UNCHANGED beside

\* N, r or p of the envelope replaced by twice or half its value
CostEdits ==
    { Edit("cost", f, 0, t) : f \in {"kdfparams.N", "kdfparams.r", "kdfparams.p"},
                              t \in {"double", "halve"} }

DecryptProduced ==
    /\ last = Idle
    /\ \E i \in 1..Len(calls) : \E e \in {NoEdit} \cup CostEdits : \E pw \in Passwords :
          LET text == ApplyEdit(calls[i].out, e) IN
          last' = [ op |-> "decrypt", from |-> i, edit |-> e, password |-> pw,
                    result |-> decryptEvmMnemonic(text, pw) ]
    /\ UNCHANGED <<mnemonic, password, entropy, calls>>
    /\ UNCHANGED beside

NextProducer == Encrypt \/ Produce \/ DecryptProduced \/ Done

SpecProducer == Init /\ [][NextProducer]_vars

----------------------------------------------------------------------------
(* Encryption alone, for short and long secrets *)

InitLength ==
    /\ \/ \E k \in DOMAIN SecretList : mnemonic = SecretList[k]
       \/ \E k \in DOMAIN LongSecretList : mnemonic = LongSecretList[k]
    /\ \E k \in DOMAIN PasswordList : password = PasswordList[k]
    /\ entropy = 0
    /\ calls = <<>>
    /\ last = Idle
    /\ BesideInit

NextLength == Encrypt \/ Done

SpecLength == InitLength /\ [][NextLength]_vars

----------------------------------------------------------------------------
(* A caller that keeps a record of the decryptEvmMnemonic calls it made, with
   encryptEvmMnemonic calls and other decryptions in between *)

MaxHistory == 2

\* the envelope as returned, or with the first character of ct changed
RecordedEdits == {NoEdit, Edit("char", "ct", 1, "alt")}

DecryptRecorded ==
    /\ last = Idle
    /\ Len(history) < MaxHistory
    /\ \E i \in 1..Len(calls) : \E e \in RecordedEdits :
       \E pw \in {password, PasswordList[1]} :
          LET text == ApplyEdit(calls[i].out, e)
              result == decryptEvmMnemonic(text, pw)
          IN /\ last' = [ op |-> "decrypt", from |-> i, edit |-> e, password |-> pw,
                          result |-> result ]
             /\ history' = Append(history, [ envelope |-> text, password |-> pw,
                                             result |-> result ])
    /\ UNCHANGED <<mnemonic, password, entropy, calls>>
    /\ UNCHANGED <<running, files, deriving, seeding, measuring>>

NextStateless == Encrypt \/ DecryptRecorded \/ Done

SpecStateless == Init /\ [][NextStateless]_vars

----------------------------------------------------------------------------
(* Invocations that overlap: each invocation of encryptEvmMnemonic or
   decryptEvmMnemonic advances one statement at a time, and the statements of
   different invocations interleave in any order.  running[id] holds the
   arguments, the position and the locals of invocation id. *)

MaxRunning == 2

Invocation(fn, arg, pw, pc) ==
    [ fn |-> fn, arg |-> arg, pw |-> pw, pc |-> pc,
      salt |-> Undefined, iv |-> Undefined, key |-> Undefined,
      ciphertext |-> Undefined, tag |-> Undefined, out |-> Undefined ]

\* variant of local: salt, iv and key kept in variables of the module, which
\* every invocation shares, so that an invocation reads what the first wrote
localShared(id, name) ==
    IF name \in {"salt", "iv", "key"} THEN running[1][name] ELSE running[id][name]

\* a local (const) of invocation id
local(id, name) == running[id][name]

\* One encryptEvmMnemonic call has returned before the invocations start, so
\* that a decryption can be among the first of them.
InitConcurrent ==
    /\ \E k \in 1..2 : mnemonic = SecretList[k]
    /\ password = PasswordList[1]
    /\ entropy = 2
    /\ calls = << encryptEvmMnemonic(mnemonic, password, 0) >>
    /\ last = Idle
    /\ BesideInit

\* the codec is entered with its arguments
StartEncrypt ==
    /\ Len(running) < MaxRunning
    /\ \E k \in 1..2 :
          running' = Append(running, Invocation("encrypt", mnemonic, PasswordList[k], "salt"))
    /\ UNCHANGED <<mnemonic, password, entropy, calls, last, history, files, deriving, seeding, measuring>>

\* a decryption receives an envelope that some call has returned
StartDecrypt ==
    /\ Len(running) < MaxRunning
    /\ \E text \in { calls[i].out : i \in 1..Len(calls) }
                    \cup { running[j].out.value :
                             j \in { x \in 1..Len(running) :
                                       running[x].fn = "encrypt" /\ running[x].pc = "done" } } :
       \E k \in 1..2 :
          running' = Append(running, Invocation("decrypt", text, PasswordList[k], "parse"))
    /\ UNCHANGED <<mnemonic, password, entropy, calls, last, history, files, deriving, seeding, measuring>>

\* const salt = crypto.randomBytes(32)
DrawSalt ==
    \E id \in 1..Len(running) :
        /\ running[id].pc = "salt"
        /\ running' = [running EXCEPT ![id].salt = randomBytes(SaltLen, entropy + 1),
                                      ![id].pc = "iv"]
        /\ entropy' = entropy + 1
        /\ UNCHANGED <<mnemonic, password, calls, last, history, files, deriving, seeding, measuring>>

\* const iv = crypto.randomBytes(16)
DrawIv ==
    \E id \in 1..Len(running) :
        /\ running[id].pc = "iv"
        /\ running' = [running EXCEPT ![id].iv = randomBytes(IvLen, entropy + 1),
                                      ![id].pc = "key"]
        /\ entropy' = entropy + 1
        /\ UNCHANGED <<mnemonic, password, calls, last, history, files, deriving, seeding, measuring>>

\* const key = crypto.scryptSync(password, salt, 32, kdfParams)
DeriveKey ==
    \E id \in 1..Len(running) :
        /\ running[id].pc = "key"
        /\ running' = [running EXCEPT
              ![id].key = scryptSync(local(id, "pw"), local(id, "salt"), KeyLen,
                                     [N |-> Num(ScryptN), r |-> Num(ScryptR),
                                      p |-> Num(ScryptP)]).value,
              ![id].pc = "cipher"]
        /\ UNCHANGED <<mnemonic, password, entropy, calls, last, history, files, deriving, seeding, measuring>>

\* createCipheriv, update, final, getAuthTag
Encipher ==
    \E id \in 1..Len(running) :
        /\ running[id].pc = "cipher"
        /\ LET ciphertext == gcmCiphertext(local(id, "key"), local(id, "iv"),
                                           utf8Encode(local(id, "arg")))
           IN running' = [running EXCEPT
                 ![id].ciphertext = ciphertext,
                 ![id].tag = gcmAuthTag(local(id, "key"), local(id, "iv"), ciphertext),
                 ![id].pc = "return"]
        /\ UNCHANGED <<mnemonic, password, entropy, calls, last, history, files, deriving, seeding, measuring>>

\* return JSON.stringify(payload)
ReturnEnvelope ==
    \E id \in 1..Len(running) :
        /\ running[id].pc = "return"
        /\ LET kdfParams == [N |-> Num(ScryptN), r |-> Num(ScryptR), p |-> Num(ScryptP)]
               payload == Obj([ v |-> Num(EnvelopeVersion),
                                alg |-> Str("aes-256-gcm"),
                                kdf |-> Str("scrypt"),
                                kdfparams |-> payloadKdfparams(kdfParams, local(id, "salt")),
                                iv |-> HexStr(toHex(local(id, "iv"))),
                                tag |-> HexStr(toHex(local(id, "tag"))),
                                ct |-> HexStr(toHex(local(id, "ciphertext"))) ])
           IN running' = [running EXCEPT ![id].out = Return(JSONstringify(payload)),
                                         ![id].pc = "done"]
        /\ UNCHANGED <<mnemonic, password, entropy, calls, last, history, files, deriving, seeding, measuring>>

\* JSON.parse, the alg/kdf check and the three Buffer.from: the envelope is one
\* a call returned, so none of them throws
ParseEnvelope ==
    \E id \in 1..Len(running) :
        /\ running[id].pc = "parse"
        /\ LET data == JSONparse(local(id, "arg")).value IN
           running' = [running EXCEPT
              ![id].salt = BufferFromHex(Get(Get(data, "kdfparams"), "salt")).value,
              ![id].iv = BufferFromHex(Get(data, "iv")).value,
              ![id].tag = BufferFromHex(Get(data, "tag")).value,
              ![id].pc = "scrypt"]
        /\ UNCHANGED <<mnemonic, password, entropy, calls, last, history, files, deriving, seeding, measuring>>

\* const key = crypto.scryptSync(password, salt, 32, {N, r, p of the envelope})
DeriveEnvelopeKey ==
    \E id \in 1..Len(running) :
        /\ running[id].pc = "scrypt"
        /\ LET kdfparams == Get(JSONparse(local(id, "arg")).value, "kdfparams") IN
           running' = [running EXCEPT
              ![id].key = scryptSync(local(id, "pw"), local(id, "salt"), KeyLen,
                                     [ N |-> Get(kdfparams, "N"), r |-> Get(kdfparams, "r"),
                                       p |-> Get(kdfparams, "p") ]).value,
              ![id].pc = "decipher"]
        /\ UNCHANGED <<mnemonic, password, entropy, calls, last, history, files, deriving, seeding, measuring>>

\* createDecipheriv, setAuthTag, update, final, toString("utf8")
Decipher ==
    \E id \in 1..Len(running) :
        /\ running[id].pc = "decipher"
        /\ LET ct == BufferFromHex(Get(JSONparse(local(id, "arg")).value, "ct")).value
               key == local(id, "key")
               iv == local(id, "iv")
           IN running' = [running EXCEPT
                 ![id].out =
                    IF gcmTagVerifies(key, iv, ct, local(id, "tag"))
                    THEN Return(utf8Decode(gcmPlaintext(key, iv, ct)))
                    ELSE Throw("Error", "Unsupported state or unable to authenticate data"),
                 ![id].pc = "done"]
        /\ UNCHANGED <<mnemonic, password, entropy, calls, last, history, files, deriving, seeding, measuring>>

NextConcurrent ==
    \/ StartEncrypt \/ DrawSalt \/ DrawIv \/ DeriveKey \/ Encipher \/ ReturnEnvelope
    \/ StartDecrypt \/ ParseEnvelope \/ DeriveEnvelopeKey \/ Decipher

SpecConcurrent == InitConcurrent /\ [][NextConcurrent]_vars

----------------------------------------------------------------------------
(* A caller that sees how each decryptEvmMnemonic call ends, for one envelope
   of every kind of failure *)

ErrorEdits ==
    { NoEdit,
      Edit("text", "", 0, "malformed"), Edit("text", "", 0, "null"),
      Edit("unsupported", "alg", 0, "keep"), Edit("unsupported", "kdf", 0, "keep"),
      Edit("cost", "kdfparams.N", 0, "halve"), Edit("cost", "kdfparams.r", 0, "double"),
      Edit("cost", "kdfparams.p", 0, "halve"),
      Edit("char", "tag", 1, "alt"), Edit("remove", "kdfparams.salt", 0, "") }

DecryptTraced ==
    /\ last = Idle
    /\ \E i \in 1..Len(calls) : \E e \in ErrorEdits : \E pw \in Passwords :
          LET text == ApplyEdit(calls[i].out, e) IN
          last' = [ op |-> "decrypt", from |-> i, edit |-> e, password |-> pw,
                    result |-> decryptEvmMnemonic(text, pw),
                    made |-> decryptEvmMnemonicCalls(text, pw) ]
    /\ UNCHANGED <<mnemonic, password, entropy, calls>>
    /\ UNCHANGED beside

NextErrors == Encrypt \/ DecryptTraced \/ Done

SpecErrors == Init /\ [][NextErrors]_vars

----------------------------------------------------------------------------
(* Order of the checks of decryptEvmMnemonic: an envelope reaches it with one
   of its fields missing or malformed, and with its text cut short or its alg
   or kdf not the ones the codec writes. *)

\* what else is wrong with the envelope: a field missing, a character that is
\* no hex digit, a cost scrypt refuses
OtherEdits ==
    { NoEdit,
      Edit("remove", "kdfparams", 0, ""), Edit("remove", "kdfparams.salt", 0, ""),
      Edit("remove", "kdfparams.N", 0, ""), Edit("remove", "iv", 0, ""),
      Edit("remove", "tag", 0, ""), Edit("remove", "ct", 0, ""),
      Edit("char", "iv", 1, "bad"), Edit("char", "tag", 1, "bad"),
      Edit("cost", "kdfparams.r", 0, "double") }

\* the text is cut short, alg or kdf is another name or is missing
OrderEdits ==
    { NoEdit,
      Edit("text", "", 0, "malformed"),
      Edit("unsupported", "alg", 0, "keep"), Edit("unsupported", "kdf", 0, "keep"),
      Edit("unsupported", "alg", 0, "drop"), Edit("unsupported", "kdf", 0, "drop"),
      Edit("remove", "alg", 0, ""), Edit("remove", "kdf", 0, "") }

DecryptOrdered ==
    /\ last = Idle
    /\ \E i \in 1..Len(calls) : \E e \in OrderEdits : \E o \in OtherEdits :
       \E pw \in Passwords :
          LET text == ApplyEdit(ApplyEdit(calls[i].out, o), e) IN
          last' = [ op |-> "decrypt", from |-> i, edit |-> e, other |-> o,
                    password |-> pw,
                    result |-> decryptEvmMnemonic(text, pw),
                    made |-> decryptEvmMnemonicCalls(text, pw) ]
    /\ UNCHANGED <<mnemonic, password, entropy, calls>>
    /\ UNCHANGED beside

NextOrder == Encrypt \/ DecryptOrdered \/ Done

SpecOrder == Init /\ [][NextOrder]_vars

----------------------------------------------------------------------------
(* The version field: an envelope reaches decryptEvmMnemonic with its v
   replaced by another value, or without it. *)

\* another version number, 0, the string "1", null, and no v at all
VersionList == << Num(EnvelopeVersion + 1), Num(0), Str("1"), Null, Undefined >>

\* the envelope with v replaced by `version`, or removed when it is undefined
WithVersion(text, version) ==
    LET o == text.json IN
    IF version = Undefined THEN TextOf(WithoutField(o, "v"))
    ELSE TextOf(Obj([ x \in DOMAIN o.fields \cup {"v"} |->
                        IF x = "v" THEN version ELSE o.fields[x] ]))

\* the envelopes the version is replaced in: as written, of another alg or
\* kdf, of another cost, with an altered tag, without a salt
VersionEdits ==
    { NoEdit,
      Edit("unsupported", "alg", 0, "keep"), Edit("unsupported", "kdf", 0, "drop"),
      Edit("cost", "kdfparams.N", 0, "halve"), Edit("cost", "kdfparams.r", 0, "double"),
      Edit("char", "tag", 1, "alt"), Edit("char", "ct", 1, "bad"),
      Edit("remove", "kdfparams.salt", 0, ""), Edit("remove", "iv", 0, "") }

DecryptVersioned ==
    /\ last = Idle
    /\ \E i \in 1..Len(calls) : \E e \in VersionEdits : \E k \in DOMAIN VersionList :
       \E pw \in Passwords :
          LET text == WithVersion(ApplyEdit(calls[i].out, e), VersionList[k]) IN
          last' = [ op |-> "decrypt", from |-> i, edit |-> e, version |-> VersionList[k],
                    password |-> pw,
                    result |-> decryptEvmMnemonic(text, pw) ]
    /\ UNCHANGED <<mnemonic, password, entropy, calls>>
    /\ UNCHANGED beside

NextVersion == Encrypt \/ DecryptVersioned \/ Done

SpecVersion == Init /\ [][NextVersion]_vars

----------------------------------------------------------------------------
(* Keystore files: encryptEvmPrivateKey (lines 15-30) and decryptEvmKeystore
   (lines 41-60).

   A private key string is [key, form]: key names the 256-bit number, form how
   it is written ("canonical": 0x and 64 lower-case digits, as ethers prints
   it; "bare": 64 digits without 0x, letters in upper case; "invalid": not a
   private key).  An address string is [account, form]: "checksum" as
   wallet.address prints it, "lower" all lower case, "mixed" with the case of
   one letter wrong, "invalid" not an address.  A keystore string is named by
   the key and password it was made from and by the draw of its salt, iv and
   id.  The file system maps a path to a directory or to a file's content. *)

KeyList ==
    << [key |-> 1, form |-> "canonical"], [key |-> 2, form |-> "bare"],
       [key |-> 0, form |-> "invalid"] >>

AddressList ==
    << [account |-> 1, form |-> "checksum"], [account |-> 1, form |-> "lower"],
       [account |-> 2, form |-> "checksum"], [account |-> 1, form |-> "mixed"],
       [account |-> 0, form |-> "invalid"] >>

DirList == << "./wallets", "test-wallets" >>

ChainList == << Undefined, Str("eth-mainnet") >>

\* an error that carries a code, as those of fs and ethers do
ThrowCode(n, m, c) == [kind |-> "throw", name |-> n, message |-> m, code |-> c]

\* new ethers.Wallet(privateKey): the key is kept in canonical form (a string
\* of 64 hex digits is given its 0x, and hexlify lower-cases it), the address
\* is that of its public key
Wallet(privateKey) ==
    IF privateKey.form = "invalid"
    THEN ThrowCode("Error", "invalid private key", "INVALID_ARGUMENT")
    ELSE Return([ privateKey |-> [key |-> privateKey.key, form |-> "canonical"],
                  address |-> [account |-> privateKey.key, form |-> "checksum"] ])

\* ethers.utils.getAddress: the checksum form of an address written all in
\* one case or with the right checksum; throws for anything else
getAddress(address) ==
    IF address.form \in {"checksum", "lower"}
    THEN Return([account |-> address.account, form |-> "checksum"])
    ELSE ThrowCode("Error", "invalid address", "INVALID_ARGUMENT")

toLowerCase(address) == [account |-> address.account, form |-> "lower"]

\* path.join(dir, name): the joined path, normalized (a leading ./ is dropped)
pathJoin(dir, name) ==
    [dir |-> IF dir = "./wallets" THEN "wallets" ELSE dir, name |-> name]

\* await wallet.encrypt(password): a new keystore at every call
walletEncrypt(wallet, pw, drawn) ==
    [gen |-> "keystore", key |-> wallet.privateKey.key, password |-> pw, draw |-> drawn + 1]

\* await ethers.Wallet.fromEncryptedJson(keystore, password)
fromEncryptedJson(keystore, pw) ==
    IF keystore.password = pw
    THEN Wallet([key |-> keystore.key, form |-> "canonical"])
    ELSE Throw("Error", "invalid password")

\* await fs.promises.mkdir(dir, { recursive: true })
mkdir(fs, dir) ==
    LET d == pathJoin(dir, <<>>) IN
    [f \in DOMAIN fs \cup {d} |-> IF f = d THEN [type |-> "directory"] ELSE fs[f]]

\* await fs.promises.writeFile(file, data, "utf-8"): a new file, or the new
\* content of the file there is (which keeps its mode)
writeFile(fs, file, data) ==
    [f \in DOMAIN fs \cup {file} |->
        IF f # file THEN fs[f]
        ELSE IF file \in DOMAIN fs THEN [fs[file] EXCEPT !.content = data]
        ELSE [type |-> "file", content |-> data]]

\* variant of readFile: a file that is not there is reported as one that may
\* not be read
readFileDenied(fs, file) ==
    IF file \notin DOMAIN fs \/ "mode" \in DOMAIN fs[file]
    THEN ThrowCode("Error", "EACCES: permission denied", "EACCES")
    ELSE Return(fs[file].content)

\* await fs.promises.readFile(file, "utf-8"): the content of the file; no
\* file at that path is ENOENT, a file the process may not read (one with a
\* mode, "write-only") is EACCES
readFile(fs, file) ==
    IF file \notin DOMAIN fs
    THEN ThrowCode("Error", "ENOENT: no such file or directory", "ENOENT")
    ELSE IF "mode" \in DOMAIN fs[file]
    THEN ThrowCode("Error", "EACCES: permission denied", "EACCES")
    ELSE Return(fs[file].content)

\* variant of keystoreWritePath: the address put in the name as getAddress
\* returned it
keystoreWritePathAsGiven(dir, address) ==
    pathJoin(dir, <<"keystore-", address, ".json">>)

\* the path encryptEvmPrivateKey writes (line 27)
keystoreWritePath(dir, address) ==
    pathJoin(dir, <<"keystore-", toLowerCase(address), ".json">>)

\* variant of keystoreReadPath: the address put in the name as getAddress
\* returned it
keystoreReadPathAsGiven(dir, address) ==
    pathJoin(dir, <<"keystore-", address, ".json">>)

\* the path decryptEvmKeystore reads (line 50)
keystoreReadPath(dir, address) ==
    pathJoin(dir, <<"keystore-", toLowerCase(address), ".json">>)

\* The settled promise, the file system and the number of keystores made
\* after the call.
encryptEvmPrivateKey(privateKey, pw, saveOnFile, dir, fs, drawn) ==
    LET wallet == Wallet(privateKey)
        keystore == walletEncrypt(wallet.value, pw, drawn)
        address == getAddress(wallet.value.address).value
    IN
    IF wallet.kind = "throw"
    THEN [result |-> wallet, files |-> fs, drawn |-> drawn]
    ELSE [ result |-> Return(keystore),
           files |-> IF saveOnFile
                     THEN writeFile(mkdir(fs, dir), keystoreWritePath(dir, address), keystore)
                     ELSE fs,
           drawn |-> drawn + 1 ]

\* the settled promise of decryptEvmKeystore(publicKey, password, chain, dir)
decryptEvmKeystore(publicKey, pw, chain, dir, fs) ==
    LET address == getAddress(publicKey)
        file == keystoreReadPath(dir, address.value)
        keystore == readFile(fs, file)
        decrypted == fromEncryptedJson(keystore.value, pw)
        provider == IF chain # Undefined THEN [alchemy |-> chain] ELSE Undefined
    IN
    IF address.kind = "throw" THEN address
    ELSE IF keystore.kind = "throw"
    THEN IF keystore.code = "ENOENT"
         THEN Throw("Error", <<"Keystore not found at ", file>>)
         ELSE keystore
    ELSE IF decrypted.kind = "throw" THEN decrypted
    ELSE Return([ privateKey |-> decrypted.value.privateKey,
                  address |-> decrypted.value.address,
                  provider |-> provider ])

\* the file system after decryptEvmKeystore(publicKey, password, chain, dir):
\* readFile (line 51) is the only call it makes on fs
decryptEvmKeystoreFiles(publicKey, pw, chain, dir, fs) ==
    fs

InitKeystore ==
    /\ mnemonic = SecretList[1]
    /\ password = PasswordList[1]
    /\ entropy = 0
    /\ calls = <<>>
    /\ last = Idle
    /\ BesideInit

EncryptPrivateKey ==
    /\ entropy < MaxCalls
    /\ \E k \in DOMAIN KeyList : \E w \in 1..2 : \E saveOnFile \in BOOLEAN :
       \E d \in DOMAIN DirList :
          LET r == encryptEvmPrivateKey(KeyList[k], PasswordList[w], saveOnFile,
                                        DirList[d], files, entropy)
          IN /\ files' = r.files
             /\ entropy' = r.drawn
             /\ last' = [ op |-> "encryptEvmPrivateKey", privateKey |-> KeyList[k],
                          password |-> PasswordList[w], saveOnFile |-> saveOnFile,
                          dir |-> DirList[d], result |-> r.result, before |-> files ]
    /\ UNCHANGED <<mnemonic, password, calls, history, running, deriving, seeding, measuring>>

\* after: the saving call this call follows, if it follows one
DecryptKeystore ==
    /\ \E a \in DOMAIN AddressList : \E w \in 1..2 : \E c \in DOMAIN ChainList :
       \E d \in DOMAIN DirList :
          /\ last' = [ op |-> "decryptEvmKeystore", publicKey |-> AddressList[a],
                       password |-> PasswordList[w], chain |-> ChainList[c],
                       dir |-> DirList[d],
                       result |-> decryptEvmKeystore(AddressList[a], PasswordList[w],
                                                     ChainList[c], DirList[d], files),
                       after |-> IF last.op = "encryptEvmPrivateKey" THEN last ELSE Idle,
                       before |-> files ]
          /\ files' = decryptEvmKeystoreFiles(AddressList[a], PasswordList[w],
                                              ChainList[c], DirList[d], files)
    /\ UNCHANGED <<mnemonic, password, entropy, calls, history, running, deriving, seeding, measuring>>

NextKeystore == EncryptPrivateKey \/ DecryptKeystore

SpecKeystore == InitKeystore /\ [][NextKeystore]_vars

\* A file system left by earlier runs: in test-wallets, the keystore of key 2
\* under the first password, which the process may write but not read.
ProtectedFiles ==
    LET made == encryptEvmPrivateKey(KeyList[2], PasswordList[1], TRUE, DirList[2],
                                     NoFiles, 0 - 1).files
    IN [ f \in DOMAIN made |->
           IF made[f].type = "file"
           THEN [type |-> "file", content |-> made[f].content, mode |-> "write-only"]
           ELSE made[f] ]

InitProtected ==
    /\ mnemonic = SecretList[1]
    /\ password = PasswordList[1]
    /\ entropy = 0
    /\ calls = <<>>
    /\ last = Idle
    /\ history = <<>>
    /\ running = <<>>
    /\ files = ProtectedFiles
    /\ deriving = Idle
    /\ seeding = Idle
    /\ measuring = Idle

SpecProtected == InitProtected /\ [][NextKeystore]_vars

\* a caller makes encryptEvmPrivateKey calls one after the other and keeps a
\* record of each: its arguments, what it returned, the file system it found
SaveRecorded ==
    /\ Len(history) < MaxHistory
    /\ \E k \in DOMAIN KeyList : \E w \in 1..2 : \E saveOnFile \in BOOLEAN :
       \E d \in DOMAIN DirList :
          LET r == encryptEvmPrivateKey(KeyList[k], PasswordList[w], saveOnFile,
                                        DirList[d], files, entropy)
          IN /\ files' = r.files
             /\ entropy' = r.drawn
             /\ history' = Append(history,
                    [ op |-> "encryptEvmPrivateKey", privateKey |-> KeyList[k],
                      password |-> PasswordList[w], saveOnFile |-> saveOnFile,
                      dir |-> DirList[d], result |-> r.result, before |-> files ])
    /\ UNCHANGED <<mnemonic, password, calls, last, running, deriving, seeding, measuring>>

NextSaving == SaveRecorded

SpecSaving == InitKeystore /\ [][NextSaving]_vars

----------------------------------------------------------------------------
(* deriveEvmWalletsFromMnemonic (lines 112-132).

   A mnemonic is [phrase, kind]: phrase names the words, kind says what
   ethers.utils.isValidMnemonic finds.  numberOfWallets is a JavaScript
   number: an integer Num(n), n + 1/2 written [t |-> "number", n |-> n,
   half |-> TRUE], or NaN.  A derived wallet is named by the phrase and the
   path it was derived from: different paths give different keys. *)

MaxWallets == 3

MnemonicList ==
    << [phrase |-> 1, kind |-> "valid"], [phrase |-> 2, kind |-> "valid"],
       [phrase |-> 3, kind |-> "bad checksum"], [phrase |-> 4, kind |-> "unknown word"] >>

NaN == [t |-> "number", nan |-> TRUE]
Half(n) == [t |-> "number", n |-> n, half |-> TRUE]

\* the integers from -MaxWallets to MaxWallets, the halves between them, NaN
NumberOfWalletsSet ==
    { Num(n) : n \in (0 - MaxWallets)..MaxWallets }
    \cup { Half(n) : n \in (0 - 2)..1 }
    \cup { NaN }

\* x <= 0
lessOrEqualZero(x) ==
    IF "nan" \in DOMAIN x THEN FALSE
    ELSE IF "half" \in DOMAIN x THEN x.n < 0
    ELSE x.n <= 0

\* i < x, for an integer i
lessThan(i, x) ==
    IF "nan" \in DOMAIN x THEN FALSE
    ELSE IF "half" \in DOMAIN x THEN i <= x.n
    ELSE i < x.n

\* ethers.utils.isValidMnemonic
isValidMnemonic(m) == m.kind = "valid"

\* variant of deriveChecks: the two checks in the other order
deriveChecksCountFirst(m, numberOfWallets) ==
    IF lessOrEqualZero(numberOfWallets)
    THEN Throw("Error", "numberOfWallets must be a positive integer")
    ELSE IF ~isValidMnemonic(m) THEN Throw("Error", "Invalid BIP-39 mnemonic")
    ELSE Return(Undefined)

\* lines 117-118: the two checks before the loop
deriveChecks(m, numberOfWallets) ==
    IF ~isValidMnemonic(m) THEN Throw("Error", "Invalid BIP-39 mnemonic")
    ELSE IF lessOrEqualZero(numberOfWallets)
    THEN Throw("Error", "numberOfWallets must be a positive integer")
    ELSE Return(Undefined)

\* variant of derivationPath: the index counted from 1
derivationPathFromOne(i) == <<"m", "44'", "60'", "0'", "0", i + 1>>

\* `m/44'/60'/0'/0/${i}`: the path, its last element the index in decimal
derivationPath(i) == <<"m", "44'", "60'", "0'", "0", i>>

\* ethers.Wallet.fromMnemonic(mnemonic, path)
fromMnemonic(m, path) == [phrase |-> m.phrase, path |-> path, provider |-> Undefined]

\* w.connect(alchemyProvider(chain))
connect(w, chain) == [w EXCEPT !.provider = [alchemy |-> chain]]

InitDerive ==
    /\ mnemonic = SecretList[1]
    /\ password = PasswordList[1]
    /\ entropy = 0
    /\ calls = <<>>
    /\ last = Idle
    /\ BesideInit

\* the call is entered and makes its two checks
DeriveEnter ==
    /\ deriving.op \in {"idle", "done"}
    /\ \E k \in DOMAIN MnemonicList : \E numberOfWallets \in NumberOfWalletsSet :
       \E c \in DOMAIN ChainList :
          LET checked == deriveChecks(MnemonicList[k], numberOfWallets) IN
          deriving' = [ op |-> IF checked.kind = "throw" THEN "done" ELSE "loop",
                        mnemonic |-> MnemonicList[k],
                        numberOfWallets |-> numberOfWallets,
                        chain |-> ChainList[c],
                        i |-> 0, wallets |-> <<>>,
                        result |-> IF checked.kind = "throw" THEN checked ELSE Undefined ]
    /\ UNCHANGED <<mnemonic, password, entropy, calls, last, history, running, files, seeding, measuring>>

\* one turn of the loop: i < numberOfWallets, derive, push, i++
DeriveOne ==
    /\ deriving.op = "loop"
    /\ lessThan(deriving.i, deriving.numberOfWallets)
    /\ LET path == derivationPath(deriving.i)
           w == fromMnemonic(deriving.mnemonic, path)
       IN deriving' = [deriving EXCEPT
             !.wallets = Append(@, IF deriving.chain # Undefined
                                   THEN connect(w, deriving.chain) ELSE w),
             !.i = @ + 1]
    /\ UNCHANGED <<mnemonic, password, entropy, calls, last, history, running, files, seeding, measuring>>

\* the loop ends: return wallets
DeriveReturn ==
    /\ deriving.op = "loop"
    /\ ~lessThan(deriving.i, deriving.numberOfWallets)
    /\ deriving' = [deriving EXCEPT !.op = "done", !.result = Return(deriving.wallets)]
    /\ UNCHANGED <<mnemonic, password, entropy, calls, last, history, running, files, seeding, measuring>>

NextDerive == DeriveEnter \/ DeriveOne \/ DeriveReturn

SpecDerive == InitDerive /\ [][NextDerive]_vars

----------------------------------------------------------------------------
(* generateEvmSeed (lines 96-102).

   entropyBytes is a JavaScript number, written as numberOfWallets is, or
   undefined when the caller leaves the argument out.  A mnemonic built by
   ethers.utils.entropyToMnemonic is named by the entropy it spells and the
   number of its words. *)

MaxEntropyBytes == 34

SeedError == "entropyBytes must be 16, 20, 24, 28, or 32"

\* what a caller passes: nothing, the integers from -2 to MaxEntropyBytes,
\* the halves from 15.5 to 32.5, NaN
EntropyBytesSet ==
    { Undefined }
    \cup { Num(n) : n \in (0 - 2)..MaxEntropyBytes }
    \cup { Half(n) : n \in 15..32 }
    \cup { NaN }

\* x < n, for an integer n
numberLess(x, n) ==
    IF "nan" \in DOMAIN x THEN FALSE ELSE x.n < n

\* x > n, for an integer n
numberGreater(x, n) ==
    IF "nan" \in DOMAIN x THEN FALSE
    ELSE IF "half" \in DOMAIN x THEN x.n >= n
    ELSE x.n > n

\* x % 4 !== 0: the remainder of NaN is NaN, that of n + 1/2 ends in .5
remainder4NotZero(x) ==
    IF "nan" \in DOMAIN x THEN TRUE
    ELSE IF "half" \in DOMAIN x THEN TRUE
    ELSE x.n % 4 # 0

\* variant of entropyBytesRejected: the range is checked, the remainder is not
entropyBytesRejectedRangeOnly(x) ==
    numberLess(x, 16) \/ numberGreater(x, 32)

\* line 97: entropyBytes < 16 || entropyBytes > 32 || entropyBytes % 4 !== 0
entropyBytesRejected(x) ==
    numberLess(x, 16) \/ numberGreater(x, 32) \/ remainder4NotZero(x)

\* ethers.utils.entropyToMnemonic: 11 bits a word, of the entropy and of its
\* checksum, which has one bit for every 32 bits of entropy
entropyToMnemonic(bytes) ==
    IF bytes.len % 4 # 0 \/ bytes.len < 16 \/ bytes.len > 32
    THEN Throw("Error", "invalid entropy")
    ELSE Return([ of |-> bytes, words |-> (bytes.len * 8 + bytes.len \div 4) \div 11 ])

\* generateEvmSeed(entropyBytes), called after `drawn` draws of randomBytes:
\* what it returns or throws, and the number of draws it makes
generateEvmSeed(entropyBytes, drawn) ==
    LET size == IF entropyBytes = Undefined THEN Num(32) ELSE entropyBytes IN
    IF entropyBytesRejected(size)
    THEN [ out |-> Throw("Error", SeedError), draws |-> 0 ]
    ELSE IF "nan" \in DOMAIN size \/ "half" \in DOMAIN size
    THEN [ out |-> ThrowCode("RangeError", "The value of \"size\" is out of range.",
                             "ERR_OUT_OF_RANGE"),
           draws |-> 0 ]
    ELSE [ out |-> entropyToMnemonic(randomBytes(size.n, drawn + 1)), draws |-> 1 ]

InitSeed ==
    /\ mnemonic = SecretList[1]
    /\ password = PasswordList[1]
    /\ entropy = 0
    /\ calls = <<>>
    /\ last = Idle
    /\ BesideInit

\* a caller calls generateEvmSeed and looks at what comes back
GenerateSeed ==
    /\ entropy < MaxCalls
    /\ \E entropyBytes \in EntropyBytesSet :
          LET call == generateEvmSeed(entropyBytes, entropy) IN
          /\ seeding' = [ op |-> "done", entropyBytes |-> entropyBytes,
                          before |-> entropy, after |-> entropy + call.draws,
                          result |-> call.out ]
          /\ entropy' = entropy + call.draws
    /\ UNCHANGED <<mnemonic, password, calls, last, history, running, files, deriving,
                   measuring>>

NextSeed == GenerateSeed

SpecSeed == InitSeed /\ [][NextSeed]_vars

----------------------------------------------------------------------------
(* measureAsync (src/unnamed/part_001, lines 6-20).

   fn is what the caller passes: a function that throws when called, or
   returns a promise that is fulfilled with a value or rejected with an error
   `delay` ticks of the clock later.  Objects have an identity (ref): two
   errors with the same message are two values.  The body of the executor
   runs in two turns: from its first line to the await, and from the await to
   its end; a function that throws when called makes one turn of it.
   logger is config.logger: a call appends one record and returns. *)

MaxDelay == 2

NameList == << "test-operation", "failing-operation" >>

ValueList ==
    << Str("success"), Num(42), Undefined, Null, [t |-> "object", ref |-> 1],
       [t |-> "object", ref |-> 2] >>

ErrorList ==
    << [t |-> "error", ref |-> 1, message |-> "Test error"],
       [t |-> "error", ref |-> 2, message |-> "Test error"],
       Undefined >>

FnSet ==
    { [how |-> "resolve", value |-> ValueList[k], delay |-> d] :
         k \in DOMAIN ValueList, d \in 0..MaxDelay }
    \cup { [how |-> "reject", value |-> ErrorList[k], delay |-> d] :
         k \in DOMAIN ErrorList, d \in 0..MaxDelay }
    \cup { [how |-> "throw", value |-> ErrorList[k], delay |-> 0] :
         k \in DOMAIN ErrorList }

\* a promise nobody has settled
Pending == [state |-> "pending"]

\* resolve(value) and reject(error) of a promise: the first call settles it,
\* a later one changes nothing
promiseSettle(promise, state, value) ==
    IF promise.state = "pending" THEN [state |-> state, value |-> value] ELSE promise

\* variant of loggerInfo: the record is written and the call throws
loggerInfoThrowing(log, fields, msg) ==
    [ out |-> Throw("Error", "write failed"),
      log |-> Append(log, [level |-> "info", fields |-> fields, msg |-> msg]) ]

\* logger.info(fields, msg)
loggerInfo(log, fields, msg) ==
    [ out |-> Return(Undefined),
      log |-> Append(log, [level |-> "info", fields |-> fields, msg |-> msg]) ]

\* variant of loggerError: nothing is written
loggerErrorSilent(log, fields, msg) ==
    [ out |-> Return(Undefined), log |-> log ]

\* logger.error(fields, msg)
loggerError(log, fields, msg) ==
    [ out |-> Return(Undefined),
      log |-> Append(log, [level |-> "error", fields |-> fields, msg |-> msg]) ]

\* lines 14-18, the catch block: the error is logged, then reject(error).  An
\* error thrown here rejects the promise of the executor itself, which nobody
\* holds: the promise returned stays as it is.
measureAsyncCatch(m, error) ==
    LET duration == m.now - m.start
        logged == loggerError(m.log,
                      [operation |-> m.name, duration_ms |-> duration, error |-> error],
                      "Operation failed")
    IN IF logged.out.kind = "throw"
       THEN [m EXCEPT !.op = "done", !.log = logged.log,
                      !.events = Append(@, "logger.error")]
       ELSE [m EXCEPT !.op = "done", !.log = logged.log,
                      !.events = @ \o <<"logger.error", "reject">>,
                      !.promise = promiseSettle(@, "rejected", error)]

\* lines 11-13, the try block after the await: the result is logged, then
\* resolve(result); an error thrown by the logger is caught at line 14
measureAsyncTry(m, result) ==
    LET duration == m.now - m.start
        logged == loggerInfo(m.log, [operation |-> m.name, duration_ms |-> duration],
                             "Operation completed")
    IN IF logged.out.kind = "throw"
       THEN measureAsyncCatch([m EXCEPT !.log = logged.log,
                                        !.events = Append(@, "logger.info")],
                              logged.out)
       ELSE [m EXCEPT !.op = "done", !.log = logged.log,
                      !.events = @ \o <<"logger.info", "resolve">>,
                      !.promise = promiseSettle(@, "fulfilled", result)]

\* lines 7-10: new Promise, start = performance.now(), fn is called; a fn that
\* throws is caught at once, any other is awaited
measureAsync(name, fn, now) ==
    LET m == [ op |-> "await", name |-> name, fn |-> fn, start |-> now, now |-> now,
               inner |-> Pending, promise |-> Pending, log |-> <<>>,
               events |-> <<"fn">> ]
    IN IF fn.how = "throw" THEN measureAsyncCatch(m, fn.value) ELSE m

InitMeasure ==
    /\ mnemonic = SecretList[1]
    /\ password = PasswordList[1]
    /\ entropy = 0
    /\ calls = <<>>
    /\ last = Idle
    /\ BesideInit

\* a caller calls measureAsync(name, fn), at time 0 or 1 of the clock
MeasureCall ==
    /\ measuring.op \in {"idle", "done"}
    /\ \E k \in DOMAIN NameList : \E fn \in FnSet : \E now \in 0..1 :
          measuring' = measureAsync(NameList[k], fn, now)
    /\ UNCHANGED <<mnemonic, password, entropy, calls, last, history, running, files,
                   deriving, seeding>>

\* time passes while the promise of fn is pending
Tick ==
    /\ measuring.op = "await"
    /\ measuring.inner.state = "pending"
    /\ measuring.now - measuring.start < measuring.fn.delay
    /\ measuring' = [measuring EXCEPT !.now = @ + 1]
    /\ UNCHANGED <<mnemonic, password, entropy, calls, last, history, running, files,
                   deriving, seeding>>

\* the promise of fn settles
FnSettles ==
    /\ measuring.op = "await"
    /\ measuring.inner.state = "pending"
    /\ measuring.now - measuring.start = measuring.fn.delay
    /\ measuring' = [measuring EXCEPT !.inner =
          promiseSettle(@, IF measuring.fn.how = "resolve" THEN "fulfilled" ELSE "rejected",
                        measuring.fn.value)]
    /\ UNCHANGED <<mnemonic, password, entropy, calls, last, history, running, files,
                   deriving, seeding>>

\* the await returns or throws, and the body runs to its end
Resume ==
    /\ measuring.op = "await"
    /\ measuring.inner.state # "pending"
    /\ measuring' = IF measuring.inner.state = "fulfilled"
                    THEN measureAsyncTry(measuring, measuring.inner.value)
                    ELSE measureAsyncCatch(measuring, measuring.inner.value)
    /\ UNCHANGED <<mnemonic, password, entropy, calls, last, history, running, files,
                   deriving, seeding>>

NextMeasure == MeasureCall \/ Tick \/ FnSettles \/ Resume

SpecMeasure == InitMeasure /\ [][NextMeasure]_vars

----------------------------------------------------------------------------
(* Properties *)

\* a string without unpaired surrogates
RECURSIVE WellFormed(_)
WellFormed(s) ==
    IF s = <<>> THEN TRUE
    ELSE IF IsHighSurrogate(Head(s))
    THEN Len(s) >= 2 /\ IsLowSurrogate(s[2]) /\ WellFormed(Tail(Tail(s)))
    ELSE ~IsLowSurrogate(Head(s)) /\ WellFormed(Tail(s))

Decrypted == last.op = "decrypt"
Origin == calls[last.from]
\* the string the decryptEvmMnemonic call at hand received
Received == ApplyEdit(Origin.out, last.edit)
Unedited == Decrypted /\ last.edit = NoEdit
RightPassword == last.password = Origin.password

AuthFailure == Throw("Error", "Unsupported state or unable to authenticate data")
UnsupportedEnvelope == Throw("Error", "Unsupported mnemonic envelope")

\* C1, as stated: decrypting what encryptEvmMnemonic(S, P) returned, under P,
\* returns exactly S, for every string S.
C1_RoundTripEveryString ==
    (Unedited /\ RightPassword) => last.result = Return(Origin.mnemonic)

\* C1, amended: decrypting what encryptEvmMnemonic(S, P) returned, under P,
\* returns exactly S, for every S without unpaired surrogates and every P.
C1_RoundTrip ==
    (Unedited /\ RightPassword /\ WellFormed(Origin.mnemonic))
        => last.result = Return(Origin.mnemonic)

C1_Witness ==
    /\ Unedited /\ RightPassword
    /\ Origin.mnemonic = <<233, 8364>>
    /\ last.result = Return(<<233, 8364>>)

\* C2, as stated: decrypting an envelope of encryptEvmMnemonic(S, P) under any
\* password P2 # P raises an error.
C2_AnyOtherPasswordFails ==
    (Unedited /\ last.password # Origin.password) => last.result.kind = "throw"

\* C2, amended: decrypting an envelope of encryptEvmMnemonic(S, P) under a
\* password P2 whose UTF-8 encoding differs from that of P raises an error and
\* returns no string.
C2_Authentication ==
    (Unedited /\ utf8Encode(last.password) # utf8Encode(Origin.password))
        => last.result.kind = "throw"

C2_Witness ==
    /\ Unedited
    /\ Origin.password = <<112>> /\ last.password = <<112, 119>>
    /\ last.result.kind = "throw"

\* C3: replacing one character of the hex string of ct, tag or iv by another
\* character makes decryptEvmMnemonic (under the right password) fail.
C3_TamperDetection ==
    (Decrypted /\ last.edit.op = "char" /\ RightPassword)
        => last.result.kind = "throw"

\* C4: decryptEvmMnemonic raises an error for an envelope that lacks one of
\* the required fields, whatever the password.
C4_MissingFieldRejected ==
    (Decrypted /\ last.edit.op = "remove") => last.result.kind = "throw"

\* C5: when the parsed envelope's alg is not "aes-256-gcm" or its kdf is not
\* "scrypt", decryptEvmMnemonic raises "Unsupported mnemonic envelope",
\* whatever the password and the other fields.
C5_UnsupportedEnvelope ==
    (/\ Decrypted
     /\ JSONparse(Received).kind = "return"
     /\ JSONparse(Received).value.t = "object"
     /\ \/ Get(JSONparse(Received).value, "alg") # Str("aes-256-gcm")
        \/ Get(JSONparse(Received).value, "kdf") # Str("scrypt"))
        => last.result = UnsupportedEnvelope

C5_Witness ==
    /\ Decrypted /\ RightPassword
    /\ last.edit = Edit("unsupported", "kdf", 0, "keep")
    /\ last.result = UnsupportedEnvelope

\* C6: an envelope that lacks one of the required fields makes
\* decryptEvmMnemonic fail with the unsupported-envelope error.
C6_MissingFieldUnsupported ==
    (Decrypted /\ last.edit.op = "remove") => last.result = UnsupportedEnvelope

\* C7, as stated: two calls of encryptEvmMnemonic(S, P) return different
\* strings with different salt and iv, and each decrypts to S under P.
C7_FreshEnvelopesEveryString ==
    /\ \A i, j \in 1..Len(calls) :
          i # j => /\ calls[i].out # calls[j].out
                   /\ Get(Get(calls[i].out.json, "kdfparams"), "salt")
                        # Get(Get(calls[j].out.json, "kdfparams"), "salt")
                   /\ Get(calls[i].out.json, "iv") # Get(calls[j].out.json, "iv")
    /\ \A i \in 1..Len(calls) :
          decryptEvmMnemonic(calls[i].out, password) = Return(mnemonic)

\* C7, amended: two calls of encryptEvmMnemonic(S, P) return different strings
\* with different salt and iv, and each decrypts to S under P when S has no
\* unpaired surrogate.
C7_FreshEnvelopes ==
    /\ \A i, j \in 1..Len(calls) :
          i # j => /\ calls[i].out # calls[j].out
                   /\ Get(Get(calls[i].out.json, "kdfparams"), "salt")
                        # Get(Get(calls[j].out.json, "kdfparams"), "salt")
                   /\ Get(calls[i].out.json, "iv") # Get(calls[j].out.json, "iv")
    /\ WellFormed(mnemonic) =>
          \A i \in 1..Len(calls) :
              decryptEvmMnemonic(calls[i].out, password) = Return(mnemonic)

C7_Witness ==
    /\ Len(calls) = 2
    /\ calls[1].mnemonic = calls[2].mnemonic /\ calls[1].password = calls[2].password
    /\ calls[1].out # calls[2].out
    /\ Unedited /\ RightPassword /\ last.from = 2
    /\ WellFormed(mnemonic) /\ last.result = Return(mnemonic)

\* the buffer a decryptEvmMnemonic call hands to decipher.setAuthTag
TagGiven(text) == BufferFromHex(Get(JSONparse(text).value, "tag")).value

\* C8: a decryptEvmMnemonic call that returns a string returns the complete
\* plaintext, and the tag it verified is the full tag encryptEvmMnemonic stored.
C8_NoPartialResult ==
    (Decrypted /\ last.result.kind = "return")
        => /\ TagGiven(Received) = Origin.tag
           /\ last.result.value = utf8Decode(utf8Encode(Origin.mnemonic))

\* C9: the error of a decryption under a wrong password and the error of a
\* decryption (under the right password) of the envelope with a corrupted ct,
\* tag or iv are the same error.
C9_SameFailure ==
    (Decrypted /\ last.edit.op = "char" /\ RightPassword /\ last.result.kind = "throw")
        => \A pw \in Passwords :
              decryptEvmMnemonic(Origin.out, pw).kind = "throw"
                  => last.result = decryptEvmMnemonic(Origin.out, pw)

\* C10: the N, r, p and salt an envelope records are the ones encryptEvmMnemonic
\* gave to scrypt for the key that encrypted ct: 16384, 8, 1 and the salt drawn.
C10_StoredKdfParams ==
    \A i \in 1..Len(calls) :
        LET c == calls[i]
            kp == Get(JSONparse(c.out).value, "kdfparams")
            ct == fromHex(Get(JSONparse(c.out).value, "ct").hex)
            derived == scryptSync(c.password, fromHex(Get(kp, "salt").hex), KeyLen,
                                  [N |-> Get(kp, "N"), r |-> Get(kp, "r"), p |-> Get(kp, "p")])
        IN /\ Get(kp, "N") = Num(16384) /\ Get(kp, "r") = Num(8) /\ Get(kp, "p") = Num(1)
           /\ fromHex(Get(kp, "salt").hex) = c.salt
           /\ derived.kind = "return"
           /\ c.key = derived.value
           /\ ct.src.key = derived.value

C10_Witness ==
    /\ Len(calls) = 2
    /\ Get(Get(JSONparse(calls[2].out).value, "kdfparams"), "N") = Num(ScryptN)
    /\ fromHex(Get(JSONparse(calls[2].out).value, "ct").hex).src.key.N = ScryptN
    /\ calls[2].salt = randomBytes(SaltLen, 3)

\* C11: decryptEvmMnemonic derives its key from the N, r, p and salt the
\* envelope records: under the right password (and for a secret without
\* unpaired surrogates, see C1) an envelope of a compatible producer whose cost
\* parameters are not (16384, 8, 1) decrypts to its secret, and an envelope
\* whose N, r or p was changed fails to decrypt.
C11_EnvelopeParameters ==
    (Decrypted /\ RightPassword /\ WellFormed(Origin.mnemonic))
        => /\ (/\ last.edit = NoEdit
               /\ Origin.kdfParams # [N |-> Num(ScryptN), r |-> Num(ScryptR),
                                       p |-> Num(ScryptP)])
                  => last.result = Return(Origin.mnemonic)
           /\ last.edit.op = "cost" => last.result.kind = "throw"

\* what the caller reads in the string a finished encryptEvmMnemonic call
\* returned
Envelope(i) == JSONparse(calls[i].out).value
EnvelopeHex(i, f) ==
    IF f = "salt" THEN Get(Get(Envelope(i), "kdfparams"), "salt").hex
    ELSE Get(Envelope(i), f).hex

\* C12: every string encryptEvmMnemonic returns parses as a JSON object with
\* exactly the fields v, alg, kdf, kdfparams, iv, tag, ct, where v = 1,
\* alg = "aes-256-gcm", kdf = "scrypt" and kdfparams is an object with exactly
\* the fields N, r, p, salt.
C12_EnvelopeHeader ==
    \A i \in 1..Len(calls) :
        /\ JSONparse(calls[i].out).kind = "return"
        /\ Envelope(i).t = "object"
        /\ DOMAIN Envelope(i).fields = {"v", "alg", "kdf", "kdfparams", "iv", "tag", "ct"}
        /\ Get(Envelope(i), "v") = Num(1)
        /\ Get(Envelope(i), "alg") = Str("aes-256-gcm")
        /\ Get(Envelope(i), "kdf") = Str("scrypt")
        /\ Get(Envelope(i), "kdfparams").t = "object"
        /\ DOMAIN Get(Envelope(i), "kdfparams").fields = {"N", "r", "p", "salt"}

C12_Witness ==
    /\ last.op = "encrypt" /\ last.from = 2
    /\ DOMAIN Envelope(2).fields = {"v", "alg", "kdf", "kdfparams", "iv", "tag", "ct"}
    /\ Get(Envelope(2), "v") = Num(1)

\* a hex string of n lower-case characters that spells n / 2 bytes
LowerCaseHex(h, n) == h.length = n /\ h.marks = {} /\ 2 * fromHex(h).len = n

byteLength(s) ==
    LET paired == { i \in 1..Len(s) : /\ IsLowSurrogate(s[i])
                                       /\ i > 1 /\ IsHighSurrogate(s[i - 1]) }
        leads == { i - 1 : i \in paired }
        single == (1..Len(s)) \ (paired \cup leads)
    IN 4 * Cardinality(leads)
       + Cardinality({ i \in single : s[i] < 128 })
       + 2 * Cardinality({ i \in single : s[i] >= 128 /\ s[i] < 2048 })
       + 3 * Cardinality({ i \in single : s[i] >= 2048 })

\* C14: in every envelope of encryptEvmMnemonic(S, P) the ct hex string has
\* exactly 2 times as many characters as S has UTF-8 bytes, and spells that
\* many bytes; also for multi-byte characters and for a secret of
\* LargeSecretLen characters.
C14_LengthPreservation ==
    \A i \in 1..Len(calls) :
        /\ EnvelopeHex(i, "ct").length = 2 * byteLength(calls[i].mnemonic)
        /\ fromHex(EnvelopeHex(i, "ct")).len = byteLength(calls[i].mnemonic)

C14_Witness ==
    /\ last.op = "encrypt"
    /\ Len(mnemonic) = LargeSecretLen /\ mnemonic[1] = 8364
    /\ EnvelopeHex(1, "ct").length = 6 * LargeSecretLen

Finished(id) == running[id].pc = "done"

\* C16: whatever the interleaving, an invocation that has returned used only
\* its own salt, iv and key and returned what it returns when run alone.  An
\* encryption returned an envelope that records the salt and iv it drew
\* itself, which no other invocation drew, whose ct was made under the key of
\* its own password and salt, and which decrypts to its own secret under its
\* own password (the secret having no unpaired surrogate); a decryption returned what decryptEvmMnemonic returns for its
\* envelope and password.
C16_Isolation ==
    \A id \in 1..Len(running) :
        /\ (Finished(id) /\ running[id].fn = "encrypt") =>
              LET r == running[id]
                  data == JSONparse(r.out.value).value
              IN /\ fromHex(Get(Get(data, "kdfparams"), "salt").hex) = r.salt
                 /\ fromHex(Get(data, "iv").hex) = r.iv
                 /\ fromHex(Get(data, "ct").hex).src.key
                      = scryptKey(r.pw, r.salt, KeyLen, ScryptN, ScryptR, ScryptP)
                 /\ fromHex(Get(data, "ct").hex).src.iv = r.iv
                 /\ WellFormed(r.arg) => decryptEvmMnemonic(r.out.value, r.pw) = Return(r.arg)
                 /\ \A other \in 1..Len(running) :
                       (other # id /\ running[other].fn = "encrypt")
                           => /\ running[other].salt # r.salt
                              /\ running[other].iv # r.iv
        /\ (Finished(id) /\ running[id].fn = "decrypt") =>
              running[id].out = decryptEvmMnemonic(running[id].arg, running[id].pw)

\* two encryptions whose draws alternated, both returned
C16_Witness ==
    /\ Len(running) = 2 /\ Finished(1) /\ Finished(2)
    /\ running[1].fn = "encrypt" /\ running[2].fn = "encrypt"
    /\ running[1].salt = randomBytes(SaltLen, 3) /\ running[2].salt = randomBytes(SaltLen, 4)
    /\ running[2].iv = randomBytes(IvLen, 5) /\ running[1].iv = randomBytes(IvLen, 6)
    /\ running[1].pw # running[2].pw
    /\ decryptEvmMnemonic(running[2].out.value, running[2].pw) = Return(mnemonic)

\* C17: every failure inside decryptEvmMnemonic reaches the caller as the
\* error of the call, once.  An envelope that is not JSON ends the call with
\* the SyntaxError of JSON.parse, an unrecognized alg or kdf with "Unsupported
\* mnemonic envelope", cost parameters scrypt refuses with the RangeError of
\* scryptSync, a tag that does not match (another password, an altered tag)
\* with the error of decipher.final.  No call is made twice (no retry of the
\* key derivation or of the decryption), no call is made after the one that
\* failed, none of the calls writes a log, and a call that returns a string
\* has made every call without a failure.
C17_ErrorPropagation ==
    Decrypted =>
        /\ \A i, j \in 1..Len(last.made) : i # j => last.made[i] # last.made[j]
        /\ \A i \in 1..Len(last.made) :
              \E k \in 1..Len(DecryptCallOrder) : last.made[i] = DecryptCallOrder[k]
        /\ last.edit = Edit("text", "", 0, "malformed")
              => /\ last.result.kind = "throw" /\ last.result.name = "SyntaxError"
                 /\ last.made = <<"JSON.parse">>
        /\ last.edit.op = "unsupported"
              => last.result = UnsupportedEnvelope /\ last.made = <<"JSON.parse">>
        /\ last.edit \in { Edit("cost", "kdfparams.r", 0, "double"),
                           Edit("cost", "kdfparams.p", 0, "halve") }
              => /\ last.result.kind = "throw" /\ last.result.name = "RangeError"
                 /\ last.made[Len(last.made)] = "crypto.scryptSync"
        /\ (\/ last.edit = NoEdit /\ utf8Encode(last.password) # utf8Encode(Origin.password)
            \/ last.edit = Edit("cost", "kdfparams.N", 0, "halve")
            \/ last.edit = Edit("char", "tag", 1, "alt"))
              => /\ last.result = AuthFailure
                 /\ last.made[Len(last.made)] = "decipher.final"
        /\ last.result.kind = "return" <=> last.made = DecryptCallOrder

C17_Witness ==
    /\ Decrypted /\ RightPassword
    /\ last.edit = Edit("cost", "kdfparams.p", 0, "halve")
    /\ last.result.kind = "throw" /\ last.result.name = "RangeError"
    /\ Len(last.made) = 5

\* a saving call that completed: encryptEvmPrivateKey(k, pw, true, dir)
SavedBy(call) ==
    /\ call.op = "encryptEvmPrivateKey"
    /\ call.saveOnFile
    /\ call.result.kind = "return"

\* dir/keystore-<lowercased address of k>.json
KeystoreFileOf(dir, k) ==
    [ dir |-> IF dir = "./wallets" THEN "wallets" ELSE dir,
      name |-> <<"keystore-", [account |-> k.key, form |-> "lower"], ".json">> ]

\* C18: after encryptEvmPrivateKey(k, pw, true, dir) has completed, the file
\* dir/keystore-<lowercased address of k>.json exists and holds exactly the
\* string returned, and the decryptEvmKeystore(address of k, pw, undefined,
\* dir) call that follows yields the wallet of k: the private key k (as ethers
\* writes it, 0x and lower-case digits) and the address of k.
C18_KeystoreRoundTrip ==
    /\ SavedBy(last) =>
          /\ KeystoreFileOf(last.dir, last.privateKey) \in DOMAIN files
          /\ files[KeystoreFileOf(last.dir, last.privateKey)]
               = [type |-> "file", content |-> last.result.value]
    /\ (/\ last.op = "decryptEvmKeystore"
        /\ SavedBy(last.after)
        /\ last.publicKey = [account |-> last.after.privateKey.key, form |-> "checksum"]
        /\ last.password = last.after.password
        /\ last.chain = Undefined
        /\ last.dir = last.after.dir)
          => /\ last.result.kind = "return"
             /\ last.result.value.privateKey
                  = [key |-> last.after.privateKey.key, form |-> "canonical"]
             /\ last.result.value.address = last.publicKey

C18_Witness ==
    /\ last.op = "decryptEvmKeystore"
    /\ SavedBy(last.after)
    /\ last.after.privateKey = [key |-> 1, form |-> "canonical"]
    /\ last.publicKey = [account |-> 1, form |-> "checksum"]
    /\ last.password = last.after.password /\ last.dir = last.after.dir
    /\ last.chain = Undefined
    /\ last.result.kind = "return"
    /\ last.result.value.privateKey = last.after.privateKey

\* C19: with a valid mnemonic, deriveEvmWalletsFromMnemonic throws
\* "numberOfWallets must be a positive integer" for every numberOfWallets <= 0;
\* with an invalid mnemonic it throws "Invalid BIP-39 mnemonic" whatever
\* numberOfWallets is; in both cases the call ends at once and no wallet is
\* derived.
C19_DeriveRejects ==
    deriving.op # "idle" =>
        /\ (/\ deriving.mnemonic.kind = "valid"
            /\ \/ deriving.numberOfWallets \in { Num(n) : n \in (0 - MaxWallets)..0 }
               \/ deriving.numberOfWallets \in { Half(n) : n \in (0 - MaxWallets)..(0 - 1) })
              => /\ deriving.op = "done"
                 /\ deriving.result
                      = Throw("Error", "numberOfWallets must be a positive integer")
                 /\ deriving.wallets = <<>> /\ deriving.i = 0
        /\ deriving.mnemonic.kind # "valid"
              => /\ deriving.op = "done"
                 /\ deriving.result = Throw("Error", "Invalid BIP-39 mnemonic")
                 /\ deriving.wallets = <<>> /\ deriving.i = 0

C19_Witness ==
    /\ deriving.op = "done"
    /\ deriving.mnemonic.kind = "bad checksum"
    /\ deriving.numberOfWallets = Num(0 - 2)
    /\ deriving.result = Throw("Error", "Invalid BIP-39 mnemonic")

\* the wallet of a phrase at index i of the path m/44'/60'/0'/0/i
WalletAt(m, i) == [phrase |-> m.phrase, path |-> <<"m", "44'", "60'", "0'", "0", i>>]

\* C20: for a valid mnemonic and a positive integer n the call returns, and
\* what it returns is an array of exactly n wallets, the one at position i
\* (0 <= i < n) being the wallet derived at m/44'/60'/0'/0/i (connected to the
\* provider of the chain when one is given), so that no two positions hold the
\* same wallet.
C20_DeriveInOrder ==
    (/\ deriving.op = "done"
     /\ deriving.mnemonic.kind = "valid"
     /\ deriving.numberOfWallets \in { Num(n) : n \in 1..MaxWallets })
        => /\ deriving.result.kind = "return"
           /\ Len(deriving.result.value) = deriving.numberOfWallets.n
           /\ \A i \in 0..(deriving.numberOfWallets.n - 1) :
                 LET w == deriving.result.value[i + 1] IN
                 /\ [phrase |-> w.phrase, path |-> w.path] = WalletAt(deriving.mnemonic, i)
                 /\ w.provider = IF deriving.chain = Undefined THEN Undefined
                                  ELSE [alchemy |-> deriving.chain]
           /\ \A i, j \in 1..Len(deriving.result.value) :
                 i # j => deriving.result.value[i].path # deriving.result.value[j].path

C20_Witness ==
    /\ deriving.op = "done"
    /\ deriving.mnemonic.kind = "valid"
    /\ deriving.numberOfWallets = Num(MaxWallets)
    /\ deriving.result.kind = "return"
    /\ Len(deriving.result.value) = MaxWallets
    /\ deriving.result.value[MaxWallets].path[6] = MaxWallets - 1

----------------------------------------------------------------------------

\* C21: generateEvmSeed(entropyBytes) throws "entropyBytes must be 16, 20, 24,
\* 28, or 32" and draws no entropy for every entropyBytes outside {16, 20, 24,
\* 28, 32}; for the values of the set, and for 32 when the argument is left
\* out, it returns a mnemonic built from exactly that many bytes of one new
\* draw (12 words for 16, 24 words for 32).
C21_SeedValidation ==
    seeding.op = "done" =>
        LET given == seeding.entropyBytes
            accepted == { Num(16), Num(20), Num(24), Num(28), Num(32) }
            n == IF given = Undefined THEN 32 ELSE given.n
        IN IF given \in accepted \cup { Undefined }
           THEN /\ seeding.result.kind = "return"
                /\ seeding.after = seeding.before + 1
                /\ seeding.result.value.of = randomBytes(n, seeding.after)
                /\ seeding.result.value.of.len = n
                /\ (n = 16 => seeding.result.value.words = 12)
                /\ (n = 32 => seeding.result.value.words = 24)
           ELSE /\ seeding.result = Throw("Error", SeedError)
                /\ seeding.after = seeding.before
                /\ entropy = seeding.before

\* a call with 18, in range but no multiple of 4, has thrown after a call
\* that drew entropy
C21_Witness ==
    /\ seeding.op = "done"
    /\ seeding.entropyBytes = Num(18)
    /\ seeding.before = 1
    /\ seeding.result.kind = "throw"

----------------------------------------------------------------------------

\* C22: measureAsync(name, fn) settles like fn.  When the promise of fn is
\* fulfilled with x (undefined and null included) the promise returned is
\* fulfilled with that same x; when fn throws or its promise is rejected with
\* e the promise returned is rejected with that same object e; until then it
\* is pending.
C22_SettlesLikeFn ==
    measuring.op # "idle" =>
        /\ measuring.op = "await" => measuring.promise = Pending
        /\ measuring.op = "done" =>
              measuring.promise =
                 [ state |-> IF measuring.fn.how = "resolve" THEN "fulfilled" ELSE "rejected",
                   value |-> measuring.fn.value ]

\* fn's promise was rejected, one tick after the call, with the second of two
\* errors that carry the same message, and the call is over
C22_Witness ==
    /\ measuring.op = "done"
    /\ measuring.fn = [how |-> "reject", value |-> ErrorList[2], delay |-> 1]
    /\ measuring.promise.state = "rejected"

----------------------------------------------------------------------------

\* C23: decryptEvmMnemonic parses the JSON first, then looks at alg and kdf,
\* and only then decodes a field or derives a key.  A text that cannot be
\* parsed ends the call with the error of JSON.parse, an envelope whose alg or
\* kdf is not recognized with "Unsupported mnemonic envelope", and in both
\* cases no call but JSON.parse was made (no Buffer.from, no scrypt, no
\* cipher), whatever else is missing or malformed in the envelope.
C23_CheckOrder ==
    Decrypted =>
        /\ last.made[1] = "JSON.parse"
        /\ last.edit = Edit("text", "", 0, "malformed")
              => /\ last.result = Throw("SyntaxError", "Unexpected end of JSON input")
                 /\ last.made = <<"JSON.parse">>
        /\ (last.edit.op = "unsupported" \/ last.edit.op = "remove")
              => /\ last.result = UnsupportedEnvelope
                 /\ last.made = <<"JSON.parse">>
        /\ Len(last.made) > 1 => last.edit = NoEdit

\* an envelope with an unrecognized kdf and a tag that is no hex string was
\* refused as unsupported
C23_Witness ==
    /\ Decrypted
    /\ last.edit = Edit("unsupported", "kdf", 0, "keep")
    /\ last.other = Edit("char", "tag", 1, "bad")
    /\ last.result = UnsupportedEnvelope
    /\ last.made = <<"JSON.parse">>

----------------------------------------------------------------------------

\* the file decryptEvmKeystore looks for, named with the directory as the
\* caller wrote it: <dir>/keystore-<lowercased address>.json
KeystoreFileAsWritten(dir, account) ==
    [ dir |-> dir, name |-> <<"keystore-", [account |-> account, form |-> "lower"], ".json">> ]

\* the decryptEvmKeystore call at hand was given an address getAddress accepts
AddressAccepted == last.publicKey.form \in {"checksum", "lower"}

\* the file of the call at hand, as path.join names it
KeystoreFileSought ==
    KeystoreFileOf(last.dir, [key |-> last.publicKey.account, form |-> "canonical"])

\* what every decryptEvmKeystore call does apart from the not-found message:
\* an invalid address, a file that may not be read and a wrong password end
\* the call with their own error, and no file is created, changed or deleted
KeystoreOtherFailures ==
    /\ files = last.before
    /\ ~AddressAccepted
          => last.result = ThrowCode("Error", "invalid address", "INVALID_ARGUMENT")
    /\ (AddressAccepted /\ KeystoreFileSought \in DOMAIN last.before)
          => LET f == last.before[KeystoreFileSought] IN
             /\ "mode" \in DOMAIN f
                   => last.result = ThrowCode("Error", "EACCES: permission denied", "EACCES")
             /\ ("mode" \notin DOMAIN f /\ f.content.password # last.password)
                   => last.result = Throw("Error", "invalid password")
             /\ ("mode" \notin DOMAIN f /\ f.content.password = last.password)
                   => last.result.kind = "return"

\* C24, as stated: when the keystore file of the address is not in dir, the
\* call fails with "Keystore not found at <dir>/keystore-<lowercased
\* address>.json", dir being the argument as the caller wrote it.
C24_NotFoundAsWritten ==
    last.op = "decryptEvmKeystore" =>
        /\ KeystoreOtherFailures
        /\ (AddressAccepted /\ KeystoreFileSought \notin DOMAIN last.before)
              => last.result = Throw("Error",
                     <<"Keystore not found at ",
                       KeystoreFileAsWritten(last.dir, last.publicKey.account)>>)

\* C24: when the keystore file of the address is not in dir, decryptEvmKeystore
\* fails with "Keystore not found at " followed by the path that path.join
\* made of dir and keystore-<lowercased address>.json (normalized: wallets/...
\* for ./wallets); every other failure (invalid address, wrong password, file
\* that may not be read) ends the call with its own error, never with
\* "Keystore not found"; the call creates, changes and deletes no file.
C24_KeystoreNotFound ==
    last.op = "decryptEvmKeystore" =>
        /\ KeystoreOtherFailures
        /\ (AddressAccepted /\ KeystoreFileSought \notin DOMAIN last.before)
              => last.result = Throw("Error", <<"Keystore not found at ", KeystoreFileSought>>)

\* the keystore of the second account was looked for in ./wallets, where it
\* is not, while test-wallets holds it
C24_Witness ==
    /\ last.op = "decryptEvmKeystore"
    /\ last.publicKey = [account |-> 2, form |-> "checksum"]
    /\ last.dir = "./wallets"
    /\ KeystoreFileSought \notin DOMAIN files
    /\ KeystoreFileOf("test-wallets", KeyList[2]) \in DOMAIN files
    /\ last.result.kind = "throw"
    /\ last.result.message[2].dir = "wallets"

----------------------------------------------------------------------------

\* the file system the i-th recorded call left
FilesAfter(i) == IF i < Len(history) THEN history[i + 1].before ELSE files

\* the recorded saving calls that wrote the file at `path`
SavesTo(path) ==
    { i \in DOMAIN history :
        SavedBy(history[i]) /\ KeystoreFileOf(history[i].dir, history[i].privateKey) = path }

\* C25: encryptEvmPrivateKey with saveOnFile = false returns the keystore and
\* leaves the file system as it was (no directory, no file); with saveOnFile =
\* true it writes dir/keystore-<lowercased address>.json, which then holds the
\* keystore returned, and changes no other file; so after any sequence of
\* calls the file of an address in a directory holds the keystore returned by
\* the most recent saving call for it.
C25_SaveOnFile ==
    /\ \A i \in DOMAIN history :
          LET c == history[i]
              after == FilesAfter(i)
              path == KeystoreFileOf(c.dir, c.privateKey)
          IN /\ c.result.kind = "throw" => after = c.before
             /\ c.result.kind = "return" =>
                   /\ c.result.value.gen = "keystore"
                   /\ c.result.value.key = c.privateKey.key
                   /\ c.result.value.password = c.password
                   /\ ~c.saveOnFile => after = c.before
                   /\ c.saveOnFile =>
                         /\ path \in DOMAIN after
                         /\ after[path] = [type |-> "file", content |-> c.result.value]
                         /\ \A f \in DOMAIN after :
                               (after[f].type = "file" /\ f # path)
                                  => f \in DOMAIN c.before /\ after[f] = c.before[f]
                         /\ \A f \in DOMAIN c.before :
                               f # path => f \in DOMAIN after /\ after[f] = c.before[f]
    /\ \A d \in DOMAIN DirList : \A k \in DOMAIN KeyList :
          KeyList[k].form # "invalid" =>
             LET path == KeystoreFileOf(DirList[d], KeyList[k])
                 saves == SavesTo(path)
                 latest == CHOOSE i \in saves : \A j \in saves : j <= i
             IN IF saves = {} THEN path \notin DOMAIN files
                ELSE /\ path \in DOMAIN files
                     /\ files[path].content = history[latest].result.value

\* two saving calls for the same key and directory, under two passwords: the
\* file holds the keystore of the second
C25_Witness ==
    /\ Len(history) = 2
    /\ SavedBy(history[1]) /\ SavedBy(history[2])
    /\ history[1].privateKey = KeyList[1] /\ history[2].privateKey = KeyList[1]
    /\ history[1].dir = "./wallets" /\ history[2].dir = "./wallets"
    /\ history[1].password # history[2].password
    /\ files[KeystoreFileOf("./wallets", KeyList[1])].content = history[2].result.value
    /\ history[1].result.value # history[2].result.value

----------------------------------------------------------------------------

\* C26: decryptEvmMnemonic never reads the version of the envelope.  For
\* every envelope and password, the call on the envelope with v replaced by
\* another value, or without v, ends as the call on the envelope itself; so
\* an envelope of encryptEvmMnemonic whose v is not 1 decrypts to its secret
\* under its password (a secret without unpaired surrogates, see C1).
C26_VersionNeverRead ==
    Decrypted =>
        /\ last.result = decryptEvmMnemonic(Received, last.password)
        /\ (Unedited /\ RightPassword /\ WellFormed(Origin.mnemonic))
              => last.result = Return(Origin.mnemonic)

\* the envelope of "ab" with v = 2 was decrypted under its password
C26_Witness ==
    /\ Decrypted /\ Unedited /\ RightPassword
    /\ Origin.mnemonic = SecretList[1]
    /\ last.version = Num(2)
    /\ Get(JSONparse(WithVersion(Received, last.version)).value, "v") = Num(2)
    /\ last.result = Return(SecretList[1])

----------------------------------------------------------------------------

\* the positions of the calls named in `names` among the calls made so far
CallsOf(names) == { i \in DOMAIN measuring.events : measuring.events[i] \in names }

\* C27: measureAsync calls fn exactly once, writes exactly one log record a
\* call (info "Operation completed" when fn succeeds, error "Operation failed"
\* when fn fails, never both), writes it before the promise returned settles,
\* and settles that promise exactly once.
C27_OnceEach ==
    measuring.op # "idle" =>
        LET logged == CallsOf({"logger.info", "logger.error"})
            settled == CallsOf({"resolve", "reject"})
        IN /\ Cardinality(CallsOf({"fn"})) = 1
           /\ Len(measuring.log) = Cardinality(logged)
           /\ measuring.op = "await" =>
                 /\ measuring.log = <<>>
                 /\ settled = {}
                 /\ measuring.promise = Pending
           /\ measuring.promise # Pending => Len(measuring.log) = 1
           /\ measuring.op = "done" =>
                 /\ Len(measuring.log) = 1
                 /\ measuring.log[1].fields.operation = measuring.name
                 /\ IF measuring.fn.how = "resolve"
                    THEN /\ measuring.log[1].level = "info"
                         /\ measuring.log[1].msg = "Operation completed"
                         /\ measuring.events = <<"fn", "logger.info", "resolve">>
                    ELSE /\ measuring.log[1].level = "error"
                         /\ measuring.log[1].msg = "Operation failed"
                         /\ measuring.events = <<"fn", "logger.error", "reject">>
                 /\ Cardinality(settled) = 1
                 /\ \A i \in logged : \A j \in settled : i < j
                 /\ measuring.promise # Pending

\* fn's promise was fulfilled two ticks after the call, and the call is over
\* with its info record written
C27_Witness ==
    /\ measuring.op = "done"
    /\ measuring.fn.how = "resolve"
    /\ measuring.fn.delay = MaxDelay
    /\ measuring.now - measuring.start = MaxDelay
    /\ Len(measuring.log) = 1
    /\ measuring.log[1].fields.duration_ms = MaxDelay

====
